---- MODULE Spec2Model ----
(***************************************************************************)
(* rclone_exporter: the /probe handler of the exporter (ProbeHandler,      *)
(* handleError, validateRemote), the permit pool that bounds concurrent    *)
(* probes, the per-remote gauge vectors and lifetime counters of the       *)
(* registry, the rclone client's GetRemoteSize, its constructors and the   *)
(* cache of GetRemoteType, and runServer, which checks the binary, creates *)
(* the exporter and serves the probe and the metrics endpoints.            *)
(*                                                                         *)
(* A remote identifier is a sequence of characters; a character is a       *)
(* one-character string (a multi-byte character is named by its code       *)
(* point).  Every goroutine that serves a request is a record of its       *)
(* position and local variables; the goroutines alive are the bag          *)
(* `goroutines`.                                                           *)
(***************************************************************************)
EXTENDS Integers, Sequences, FiniteSets, Bags, TLC

\* ---------------------------------------------------------------- bounds
MaxRunnable == 2     \* goroutines that are not blocked in the external command
MaxArrivals == 2     \* probe requests that arrive during a behaviour
MaxReturns == 2      \* external commands that end during a behaviour
MaxDuration == 1     \* largest elapsed time a probe measures

\* ------------------------------------------------------------- constants
MaxRemoteNameLength == 255
MaxConcurrentProbes == 10

StatusOK == 200
StatusBadRequest == 400
StatusTooManyRequests == 429
StatusInternalServerError == 500

Durations == 0..MaxDuration

\* ------------------------------------------------------------ characters
LowerChars == {"a","b","c","d","e","f","g","h","i","j","k","l","m",
               "n","o","p","q","r","s","t","u","v","w","x","y","z"}
UpperChars == {"A","B","C","D","E","F","G","H","I","J","K","L","M",
               "N","O","P","Q","R","S","T","U","V","W","X","Y","Z"}
DigitChars == {"0","1","2","3","4","5","6","7","8","9"}

\* the character class of remoteNameRegex: [a-zA-Z0-9_\-\.:/]
RegexClass == LowerChars \cup UpperChars \cup DigitChars \cup {"_", "-", ".", ":", "/"}

\* the characters strings.TrimSpace removes (unicode.IsSpace)
WhiteSpace == {" ", "\t", "\n", "\r", "\f", "U+000B", "U+0085", "U+00A0"}

\* characters that take two bytes in UTF-8
TwoByteChars == {"U+00E9", "U+0085", "U+00A0"}

Utf8Width(c) == IF c \in TwoByteChars THEN 2 ELSE 1

\* len(s) of a Go string: its length in bytes
ByteLen(s) == Len(s) + Cardinality({i \in 1..Len(s) : Utf8Width(s[i]) = 2})

Repeat(c, n) == [i \in 1..n |-> c]

SetMin(S) == CHOOSE x \in S : \A y \in S : x <= y
SetMax(S) == CHOOSE x \in S : \A y \in S : x >= y

\* strings.TrimSpace
MutantTrimSpace(s) == s
TrimSpace(s) ==
    LET keep == {i \in 1..Len(s) : s[i] \notin WhiteSpace}
    IN  IF keep = {} THEN <<>> ELSE SubSeq(s, SetMin(keep), SetMax(keep))

\* r.URL.Query().Get("remote"): the empty string when the parameter is absent
QueryGet(q) == IF q.present THEN q.value ELSE <<>>

\* remoteNameRegex.MatchString: ^[a-zA-Z0-9_\-\.:/]+$ (no multiline flag)
MutantRegex(s) == Len(s) >= 1
remoteNameRegex(s) == Len(s) >= 1 /\ \A i \in 1..Len(s) : s[i] \in RegexClass

NoError == "nil"
ErrEmptyName == "remote name cannot be empty"
ErrNameTooLong == "remote name too long (max 255 characters)"
ErrInvalidChars == "remote name contains invalid characters"

\* the comparison of validateRemote's length check
MutantTooLong(n) == n >= MaxRemoteNameLength
TooLong(n) == n > MaxRemoteNameLength

\* validateRemote: the error it returns, NoError for nil
MutantValidateRemote(remote) == NoError
validateRemote(remote) ==
    IF remote = <<>> THEN ErrEmptyName
    ELSE IF TooLong(ByteLen(remote)) THEN ErrNameTooLong
    ELSE IF ~remoteNameRegex(remote) THEN ErrInvalidChars
    ELSE NoError

\* ------------------------------------------------------- the rclone client
\* What one run of the external command produced: whether the process could
\* be started, whether the context's deadline had expired when the run
\* returned, the exit code, and the combined output.  The output is kept in
\* decoded form: its kind and, for a JSON object, the fields it carries.
OutEmpty == [kind |-> "empty", hasCount |-> FALSE, count |-> 0, hasBytes |-> FALSE, bytes |-> 0]
OutText == [kind |-> "text", hasCount |-> FALSE, count |-> 0, hasBytes |-> FALSE, bytes |-> 0]
OutObject(c, b) == [kind |-> "object", hasCount |-> TRUE, count |-> c, hasBytes |-> TRUE, bytes |-> b]
\* a JSON array, the JSON value null, and JSON objects that lack a field
OutArray == [kind |-> "array", hasCount |-> FALSE, count |-> 0, hasBytes |-> FALSE, bytes |-> 0]
OutNull == [kind |-> "null", hasCount |-> FALSE, count |-> 0, hasBytes |-> FALSE, bytes |-> 0]
OutOnlyCount(c) == [kind |-> "object", hasCount |-> TRUE, count |-> c, hasBytes |-> FALSE, bytes |-> 0]
OutOnlyBytes(b) == [kind |-> "object", hasCount |-> FALSE, count |-> 0, hasBytes |-> TRUE, bytes |-> b]
OutNoField == [kind |-> "object", hasCount |-> FALSE, count |-> 0, hasBytes |-> FALSE, bytes |-> 0]

\* len(output)
OutputLen(output) == IF output.kind = "empty" THEN 0 ELSE 1

\* json.Unmarshal(output, &result) into RcloneSizeOutput: a field the object
\* does not carry keeps its zero value, and null leaves the struct untouched
Unmarshal(output) ==
    IF output.kind \in {"object", "null"}
    THEN [err |-> FALSE,
          Count |-> IF output.hasCount THEN output.count ELSE 0,
          Bytes |-> IF output.hasBytes THEN output.bytes ELSE 0]
    ELSE [err |-> TRUE, Count |-> 0, Bytes |-> 0]

ErrTimedOut == "rclone command timed out"
ErrExitCode == "rclone command failed (exit code)"
ErrNotRun == "failed to run rclone"
ErrEmptyOutput == "rclone returned empty output"
ErrInvalidJSON == "invalid rclone JSON output"
ErrNegative == "rclone returned invalid negative values"

\* an error; the error of a non-zero exit carries the exit code and the
\* combined output
Failure(e) == [err |-> e, Count |-> 0, Bytes |-> 0, exitCode |-> 0, output |-> OutEmpty]
ExitFailure(run) == [Failure(ErrExitCode) EXCEPT !.exitCode = run.exitCode,
                                                 !.output = run.output]

\* the validation of the decoded result
MutantNegativeResult(result) == result.Bytes < 0
MutantNoNegativeCheck(result) == FALSE
NegativeResult(result) == result.Bytes < 0 \/ result.Count < 0

\* cmd.CombinedOutput() returned an error: the process did not start, or it
\* exited with a non-zero status (a killed process reports -1)
RunFailed(run) == ~run.started \/ run.exitCode # 0

\* the result GetRemoteSize returns with a nil error
Parsed(result) == [Failure(NoError) EXCEPT !.Count = result.Count, !.Bytes = result.Bytes]

\* GetRemoteSize: the error (NoError for nil) and the parsed result
MutantExitBeforeDeadline(remote, run) ==
    IF remote = <<>> THEN Failure(ErrEmptyName)
    ELSE IF RunFailed(run)
    THEN IF ~run.started THEN Failure(ErrNotRun)
         ELSE IF run.exitCode > 0 THEN ExitFailure(run)
         ELSE Failure(ErrTimedOut)
    ELSE IF OutputLen(run.output) = 0 THEN Failure(ErrEmptyOutput)
    ELSE LET result == Unmarshal(run.output)
         IN  IF result.err THEN Failure(ErrInvalidJSON)
             ELSE IF NegativeResult(result) THEN Failure(ErrNegative)
             ELSE Parsed(result)
GetRemoteSize(remote, run) ==
    IF remote = <<>> THEN Failure(ErrEmptyName)
    ELSE IF RunFailed(run)
    THEN IF run.deadlineExceeded THEN Failure(ErrTimedOut)
         ELSE IF run.started THEN ExitFailure(run)
         ELSE Failure(ErrNotRun)
    ELSE IF OutputLen(run.output) = 0 THEN Failure(ErrEmptyOutput)
    ELSE LET result == Unmarshal(run.output)
         IN  IF result.err THEN Failure(ErrInvalidJSON)
             ELSE IF NegativeResult(result) THEN Failure(ErrNegative)
             ELSE Parsed(result)

RunOf(started, deadline, code, output) ==
    [started |-> started, deadlineExceeded |-> deadline, exitCode |-> code, output |-> output]

\* no run yet
NoRun == RunOf(FALSE, FALSE, 0, OutEmpty)

\* the runs of the external command the probes of the model see
Outputs == {OutEmpty, OutText, OutObject(1, 2), OutObject(2, 1),
            OutObject(-1, 2), OutObject(2, -1)}
Runs == {RunOf(FALSE, FALSE, -1, OutEmpty),      \* the binary cannot be started
         RunOf(TRUE, TRUE, -1, OutEmpty),        \* killed at the deadline
         RunOf(TRUE, FALSE, 1, OutText)}         \* non-zero exit with diagnostics
        \cup {RunOf(TRUE, FALSE, 0, o) : o \in Outputs}

\* the query strings of the requests of the model
Query(v) == [present |-> TRUE, value |-> v]
NoRemoteParam == [present |-> FALSE, value |-> <<>>]
LongName == Repeat("a", MaxRemoteNameLength + 1)
Queries == {NoRemoteParam, Query(<<>>), Query(<<" ", "\t">>),
            Query(<<"a">>), Query(<<" ", "b", "\n">>),
            Query(<<"a", ";">>), Query(LongName)}

\* ------------------------------------------- the rclone client's fields
\* Durations of the client are counted in minutes.
DefaultTimeout == 2          \* 2 * time.Minute
DefaultCacheExpiry == 5      \* 5 * time.Minute
DefaultBinaryPath == "rclone"

\* make(map[string]string), make(map[string]time.Time)
EmptyMap == <<>>

\* NewRcloneClient
NewRcloneClient ==
    [binaryPath |-> DefaultBinaryPath, timeout |-> DefaultTimeout,
     remoteTypeCache |-> EmptyMap, cacheTimestamps |-> EmptyMap,
     cacheExpiry |-> DefaultCacheExpiry]

\* NewRcloneClientWithConfig
MutantKeepTimeout(path, timeout) ==
    [binaryPath |-> IF path = "" THEN DefaultBinaryPath ELSE path,
     timeout |-> timeout,
     remoteTypeCache |-> EmptyMap, cacheTimestamps |-> EmptyMap,
     cacheExpiry |-> DefaultCacheExpiry]
NewRcloneClientWithConfig(path, timeout) ==
    [binaryPath |-> IF path = "" THEN DefaultBinaryPath ELSE path,
     timeout |-> IF timeout <= 0 THEN DefaultTimeout ELSE timeout,
     remoteTypeCache |-> EmptyMap, cacheTimestamps |-> EmptyMap,
     cacheExpiry |-> DefaultCacheExpiry]

\* the client before runServer has constructed it
NoClient == [binaryPath |-> "", timeout |-> 0,
             remoteTypeCache |-> EmptyMap, cacheTimestamps |-> EmptyMap,
             cacheExpiry |-> 0]

\* exec.LookPath: the path the binary resolves to
LookPath(path) == IF path = DefaultBinaryPath THEN "/usr/bin/rclone" ELSE path

ErrNotInPath == "rclone binary not found in PATH"
ErrNotExecutable == "rclone not available or not executable"

\* CheckBinaryAvailable: the error it returns, given whether LookPath finds
\* the binary and whether `rclone version` runs
MutantCheckPasses(found, runs) == NoError
CheckBinaryAvailable(found, runs) ==
    IF ~found THEN ErrNotInPath
    ELSE IF ~runs THEN ErrNotExecutable
    ELSE NoError

\* ------------------------------------------------ the cache of remote types
\* strings.TrimSuffix(s, ":")
TrimSuffix(s) ==
    IF Len(s) > 0 /\ s[Len(s)] = ":" THEN SubSeq(s, 1, Len(s) - 1) ELSE s

\* time.Since(timestamp) < c.cacheExpiry
MutantFresh(age, expiry) == age <= expiry
Fresh(age, expiry) == age < expiry

\* the read of the cache under the read lock: an entry exists and is fresh
Cached(c, remoteName, t) ==
    /\ remoteName \in DOMAIN c.remoteTypeCache
    /\ Fresh(t - c.cacheTimestamps[remoteName], c.cacheExpiry)

\* What `rclone config dump` produced: the command failed; it printed nothing
\* or the empty object "{}"; it printed something that does not decode into
\* a map of maps; it printed null; or it printed a configuration, which
\* gives some remotes an entry.  An entry has a type field or not, and the
\* type is a string or not.
NoTypeField == [hasType |-> FALSE, isString |-> FALSE, type |-> ""]
TypeNotString == [hasType |-> TRUE, isString |-> FALSE, type |-> ""]
TypeOf(t) == [hasType |-> TRUE, isString |-> TRUE, type |-> t]

DumpFailed == [kind |-> "error", remotes |-> EmptyMap]
DumpEmpty == [kind |-> "empty", remotes |-> EmptyMap]
DumpGarbage == [kind |-> "text", remotes |-> EmptyMap]
DumpNull == [kind |-> "null", remotes |-> EmptyMap]
DumpOf(remotes) == [kind |-> "config", remotes |-> remotes]

TypeUnknown == "unknown"
ErrConfigDump == "failed to get rclone config"
ErrConfigEmpty == "rclone config is empty"
ErrConfigJSON == "invalid rclone config JSON"
ErrRemoteNotFound == "remote not found in config"
ErrNoTypeField == "remote has no type field"
ErrTypeNotString == "remote type is not a string"

TypeFailure(e) == [type |-> TypeUnknown, err |-> e]

\* GetRemoteType after a miss: what it returns for the dump it read
LookupType(remoteName, dump) ==
    IF dump.kind = "error" THEN TypeFailure(ErrConfigDump)
    ELSE IF dump.kind = "empty" THEN TypeFailure(ErrConfigEmpty)
    ELSE IF dump.kind \notin {"config", "null"} THEN TypeFailure(ErrConfigJSON)
    ELSE IF remoteName \notin DOMAIN dump.remotes THEN TypeFailure(ErrRemoteNotFound)
    ELSE LET remoteConfig == dump.remotes[remoteName]
         IN  IF ~remoteConfig.hasType THEN TypeFailure(ErrNoTypeField)
             ELSE IF ~remoteConfig.isString THEN TypeFailure(ErrTypeNotString)
             ELSE [type |-> remoteConfig.type, err |-> NoError]

\* m[key] = v
Put(m, key, v) == [k \in (DOMAIN m) \cup {key} |-> IF k = key THEN v ELSE m[k]]

\* the update of the cache under the write lock
MutantStoreTypeOnly(c, remoteName, remoteType, t) ==
    [c EXCEPT !.remoteTypeCache = Put(@, remoteName, remoteType)]
StoreType(c, remoteName, remoteType, t) ==
    [c EXCEPT !.remoteTypeCache = Put(@, remoteName, remoteType),
              !.cacheTimestamps = Put(@, remoteName, t)]

\* the cache when GetRemoteType returns after a miss: the update is reached
\* only when no step of the lookup has failed
MutantStoreAlways(c, remoteName, result, t) == StoreType(c, remoteName, result.type, t)
CacheAfterLookup(c, remoteName, result, t) ==
    IF result.err = NoError THEN StoreType(c, remoteName, result.type, t) ELSE c

\* delete(m, key)
MutantDeleteAll(m, key) == EmptyMap
Delete(m, key) == [k \in (DOMAIN m) \ {key} |-> m[k]]

\* ------------------------------------------------------------- the exporter
\* a GaugeVec: a function from the label values that have an entry to values
EmptyVec == <<>>
\* vec.WithLabelValues(label).Set(v)
MutantGaugeSetAll(vec, label, v) == [l \in (DOMAIN vec) \cup {label} |-> v]
MutantGaugeAdd(vec, label, v) ==
    [l \in (DOMAIN vec) \cup {label} |->
        IF l # label THEN vec[l] ELSE IF l \in DOMAIN vec THEN vec[l] + v ELSE v]
GaugeSet(vec, label, v) ==
    [l \in (DOMAIN vec) \cup {label} |-> IF l = label THEN v ELSE vec[l]]

VARIABLES
    semaphore,               \* len(e.semaphore): the permits held
    rcloneSizeBytes, rcloneObjectsCount, probeSuccess, probeDurationSeconds,
    scrapeErrorsTotal, probeRequestsTotal,
    lastRcloneSizeBytes, lastRcloneObjectsCount, lastProbeSuccess,
    lastProbeDurationSeconds,
    goroutines,              \* the goroutines that serve the requests in flight
    arrivals,                \* requests still to arrive
    returns,                 \* external commands still to end
    alone,                   \* no request overlapped the one in flight
    errorResponses,          \* responses written with status 400, 429 or 500
    server,                  \* runServer: its position, what it created, its error
    client,                  \* the fields of the rcloneClient
    now,                     \* the clock, in minutes
    staleEntries,            \* history: the cached names whose type was read from
                             \* the config before the entry was last removed
    registry                 \* the collectors registered with e.registry

gauges == <<rcloneSizeBytes, rcloneObjectsCount, probeSuccess, probeDurationSeconds>>
counters == <<scrapeErrorsTotal, probeRequestsTotal>>
lasts == <<lastRcloneSizeBytes, lastRcloneObjectsCount, lastProbeSuccess,
           lastProbeDurationSeconds>>
process == <<server, client, now, staleEntries, registry>>
env == <<arrivals, returns, alone, errorResponses, process>>
vars == <<semaphore, gauges, counters, lasts, goroutines, env>>

NoSnapshot == [families |-> {}, size |-> EmptyVec, count |-> EmptyVec,
               success |-> EmptyVec, duration |-> EmptyVec, errors |-> 0, requests |-> 0]
NoResponse == [status |-> 0, body |-> "", snapshot |-> NoSnapshot]

\* the collectors NewExporter creates and registers
SizeCollector == "rclone_remote_size_bytes"
CountCollector == "rclone_remote_objects_count"
SuccessCollector == "rclone_probe_success"
DurationCollector == "rclone_probe_duration_seconds"
ErrorsCollector == "rclone_exporter_scrape_errors_total"
RequestsCollector == "rclone_exporter_probe_requests_total"
Collectors == {SizeCollector, CountCollector, SuccessCollector, DurationCollector,
               ErrorsCollector, RequestsCollector}
\* the collector createBuildInfoMetric registers
BuildInfoCollector == "rclone_exporter_build_info"

\* what a registry exposes of a collector: its series when it is registered
Exposed(reg, collector, series, none) == IF collector \in reg THEN series ELSE none

\* registry.Gather(): the families and the series the registry exposes
Gather == [families |-> registry,
           size |-> Exposed(registry, SizeCollector, rcloneSizeBytes, EmptyVec),
           count |-> Exposed(registry, CountCollector, rcloneObjectsCount, EmptyVec),
           success |-> Exposed(registry, SuccessCollector, probeSuccess, EmptyVec),
           duration |-> Exposed(registry, DurationCollector, probeDurationSeconds,
                                EmptyVec),
           errors |-> Exposed(registry, ErrorsCollector, scrapeErrorsTotal, 0),
           requests |-> Exposed(registry, RequestsCollector, probeRequestsTotal, 0)]

\* the goroutine of a request as ProbeHandler is entered: its position, its
\* local variables, its deferred calls, what it wrote to the response, and,
\* as history, the run of its external command and (events) the effects it
\* has had so far
Entered == [pc |-> "entry", raw |-> <<>>, remote |-> <<>>, arg |-> <<>>,
            defers |-> <<>>, status |-> 0,
            message |-> "", err |-> NoError, Count |-> 0, Bytes |-> 0,
            duration |-> -1, response |-> NoResponse, run |-> NoRun,
            deadline |-> 0, events |-> <<>>]

Handlers == BagToSet(goroutines)
\* the goroutines that do not wait for the external command
Runnable == BagCardinality(goroutines)
            - BagCardinality([h \in {g \in Handlers : g.pc = "exec"} |-> goroutines[h]])
CanRun == Runnable < MaxRunnable
Quiescent == goroutines = EmptyBag

\* NewExporter: an empty permit pool and registry
NewExporter ==
    /\ semaphore = 0
    /\ probeRequestsTotal = 0
    /\ rcloneSizeBytes = EmptyVec
    /\ rcloneObjectsCount = EmptyVec
    /\ probeSuccess = EmptyVec
    /\ probeDurationSeconds = EmptyVec
    /\ scrapeErrorsTotal = 0
    /\ lastRcloneSizeBytes = 0
    /\ lastRcloneObjectsCount = 0
    /\ lastProbeSuccess = 0
    /\ lastProbeDurationSeconds = 0
    /\ registry = Collectors

\* runServer has started the server: server.ListenAndServe() accepts requests
\* with the default values of the flags rclone.path and rclone.timeout
\* the default of the flag server.shutdown-timeout, in seconds
DefaultShutdownTimeout == 10

\* the server accepts connections: ListenAndServe runs and Shutdown has not
\* been called
Accepting == server.pc = "listening" /\ server.shutdown = "waiting"

Listening == [pc |-> "listening", rclonePath |-> DefaultBinaryPath,
              rcloneTimeout |-> DefaultTimeout, checked |-> TRUE, found |-> TRUE,
              runs |-> TRUE, exporter |-> TRUE, err |-> NoError,
              scrapes |-> 0, metrics |-> NoSnapshot,
              shutdown |-> "waiting", signal |-> "",
              shutdownTimeout |-> DefaultShutdownTimeout, deadline |-> -1,
              shutdownErr |-> NoError, closes |-> 0]

\* a server that listens, with the default client
Serving ==
    /\ server = Listening
    /\ client = NewRcloneClient
    /\ now = 0
    /\ staleEntries = {}

Init ==
    /\ NewExporter
    /\ Serving
    /\ goroutines = EmptyBag
    /\ alone = TRUE
    /\ errorResponses = 0
    /\ arrivals = MaxArrivals
    /\ returns = MaxReturns

\* Counter.Inc()
MutantInc(c) == c
Inc(c) == c + 1

\* the statuses of the responses handleError writes
ErrorStatuses == {StatusBadRequest, StatusTooManyRequests, StatusInternalServerError}

\* goroutine h takes a step and becomes g
Step(h, g) == goroutines' = (goroutines (-) SetToBag({h})) (+) SetToBag({g})
Event(h, e) == Append(h.events, e)

\* the call handleError(w, r, remote, message, status, err)
CallHandleError(h, message, status, err) ==
    [h EXCEPT !.pc = "handleError", !.message = message, !.status = status, !.err = err]

\* fmt.Sprintf("Invalid remote parameter: %v", err)
InvalidRemoteMessage(err) ==
    CASE err = ErrEmptyName -> "Invalid remote parameter: remote name cannot be empty"
      [] err = ErrNameTooLong -> "Invalid remote parameter: remote name too long (max 255 characters)"
      [] err = ErrInvalidChars -> "Invalid remote parameter: remote name contains invalid characters"

\* ProbeHandler up to the validation of the remote parameter
Receive(q) ==
    /\ Accepting
    /\ CanRun
    /\ arrivals > 0
    /\ arrivals' = arrivals - 1
    /\ alone' = Quiescent
    /\ probeRequestsTotal' = Inc(probeRequestsTotal)
    /\ LET raw == QueryGet(q)
           remote == TrimSpace(raw)
           err == validateRemote(remote)
           h == [Entered EXCEPT !.raw = raw, !.remote = remote,
                                !.events = <<"requests">>]
           g == IF err # NoError
                THEN CallHandleError(h, InvalidRemoteMessage(err), StatusBadRequest, err)
                ELSE [h EXCEPT !.pc = "acquire"]
       IN  goroutines' = goroutines (+) SetToBag({g})
    /\ UNCHANGED <<semaphore, gauges, scrapeErrorsTotal, lasts, returns, errorResponses,
                   process>>

\* the channel send of the select would block: no permit is free
MutantSemaphoreFull == semaphore > MaxConcurrentProbes
MutantSemaphoreNeverFull == FALSE
MutantSemaphoreFullEarly == semaphore >= MaxConcurrentProbes - 1
SemaphoreFull == semaphore >= MaxConcurrentProbes

\* the deferred calls of ProbeHandler, in the order it registers them: the
\* release of the permit, then the recording of the duration
MutantNoRelease == <<"duration">>
MutantNoDuration == <<"release">>
DeferredCalls == <<"release", "duration">>

\* the select on the semaphore: a permit and the two deferred calls, or the
\* default branch
MutantBlockingAcquire(h) ==
    /\ h.pc = "acquire"
    /\ ~SemaphoreFull
    /\ semaphore' = semaphore + 1
    /\ Step(h, [h EXCEPT !.pc = "call", !.defers = DeferredCalls,
                         !.events = Event(h, "acquire")])
    /\ UNCHANGED <<gauges, counters, lasts, env>>
MutantRejectTakesPermit(h) ==
    /\ h.pc = "acquire"
    /\ semaphore' = semaphore + 1
    /\ IF ~SemaphoreFull
       THEN Step(h, [h EXCEPT !.pc = "call", !.defers = DeferredCalls,
                              !.events = Event(h, "acquire")])
       ELSE Step(h, CallHandleError(h, "Too many concurrent requests",
                                    StatusTooManyRequests, NoError))
    /\ UNCHANGED <<gauges, counters, lasts, env>>
TryAcquire(h) ==
    /\ h.pc = "acquire"
    /\ IF ~SemaphoreFull
       THEN /\ semaphore' = semaphore + 1
            /\ Step(h, [h EXCEPT !.pc = "call", !.defers = DeferredCalls,
                                 !.events = Event(h, "acquire")])
       ELSE /\ semaphore' = semaphore
            /\ Step(h, CallHandleError(h, "Too many concurrent requests",
                                       StatusTooManyRequests, NoError))
    /\ UNCHANGED <<gauges, counters, lasts, env>>

\* e.rcloneClient.GetRemoteSize(remote) starts the external command under
\* context.WithTimeout(context.Background(), c.timeout) and blocks
CallGetRemoteSize(h) ==
    /\ h.pc = "call"
    /\ Step(h, [h EXCEPT !.pc = "exec", !.arg = h.remote,
                         !.deadline = client.timeout,
                         !.events = Event(h, "exec")])
    /\ UNCHANGED <<semaphore, gauges, counters, lasts, env>>

\* the external command ends and GetRemoteSize returns
ReturnGetRemoteSize(h, run) ==
    /\ h.pc = "exec"
    /\ CanRun
    /\ returns > 0
    /\ returns' = returns - 1
    /\ LET output == GetRemoteSize(h.remote, run)
           g == [h EXCEPT !.run = run]
       IN  IF output.err # NoError
           THEN Step(h, CallHandleError(g, "rclone probe failed",
                                        StatusInternalServerError, output.err))
           ELSE Step(h, [g EXCEPT !.pc = "setSize", !.Count = output.Count,
                                  !.Bytes = output.Bytes])
    /\ UNCHANGED <<semaphore, gauges, counters, lasts, arrivals, alone, errorResponses,
                   process>>

\* handleError: e.scrapeErrorsTotal.Inc()
HandleErrorInc(h) ==
    /\ h.pc = "handleError"
    /\ scrapeErrorsTotal' = Inc(scrapeErrorsTotal)
    /\ Step(h, [h EXCEPT !.pc = IF h.remote # <<>> THEN "errorGauge" ELSE "errorWrite",
                         !.events = Event(h, "errors")])
    /\ UNCHANGED <<semaphore, gauges, probeRequestsTotal, lasts, env>>

\* handleError: e.probeSuccess.WithLabelValues(remote).Set(0)
HandleErrorGauge(h) ==
    /\ h.pc = "errorGauge"
    /\ probeSuccess' = GaugeSet(probeSuccess, h.remote, 0)
    /\ Step(h, [h EXCEPT !.pc = "errorLast", !.events = Event(h, "success")])
    /\ UNCHANGED <<semaphore, rcloneSizeBytes, rcloneObjectsCount,
                   probeDurationSeconds, counters, lasts, env>>

\* handleError: e.lastProbeSuccess = 0 under e.mu
HandleErrorLast(h) ==
    /\ h.pc = "errorLast"
    /\ lastProbeSuccess' = 0
    /\ Step(h, [h EXCEPT !.pc = "errorWrite", !.events = Event(h, "lastSuccess")])
    /\ UNCHANGED <<semaphore, gauges, counters, lastRcloneSizeBytes,
                   lastRcloneObjectsCount, lastProbeDurationSeconds, env>>

\* the body http.Error writes: the message handleError was given
ErrorBody(h) == h.message

\* handleError: http.Error(w, message, status), then ProbeHandler returns
HandleErrorWrite(h) ==
    /\ h.pc = "errorWrite"
    /\ Step(h, [h EXCEPT !.pc = "return",
                         !.response = [status |-> h.status, body |-> ErrorBody(h),
                                       snapshot |-> NoSnapshot],
                         !.events = Event(h, "respond")])
    /\ errorResponses' = errorResponses + (IF h.status \in ErrorStatuses THEN 1 ELSE 0)
    /\ UNCHANGED <<semaphore, gauges, counters, lasts, arrivals, returns, alone,
                   process>>

\* the value written to the size gauge: float64(output.Bytes)
MutantSizeValue(h) == h.Count
SizeValue(h) == h.Bytes

\* the value written to the object-count gauge: float64(output.Count)
CountValue(h) == h.Count

\* e.rcloneSizeBytes.WithLabelValues(remote).Set(float64(output.Bytes))
SetSize(h) ==
    /\ h.pc = "setSize"
    /\ rcloneSizeBytes' = GaugeSet(rcloneSizeBytes, h.remote, SizeValue(h))
    /\ Step(h, [h EXCEPT !.pc = "setCount", !.events = Event(h, "size")])
    /\ UNCHANGED <<semaphore, rcloneObjectsCount, probeSuccess,
                   probeDurationSeconds, counters, lasts, env>>

\* e.rcloneObjectsCount.WithLabelValues(remote).Set(float64(output.Count))
SetCount(h) ==
    /\ h.pc = "setCount"
    /\ rcloneObjectsCount' = GaugeSet(rcloneObjectsCount, h.remote, CountValue(h))
    /\ Step(h, [h EXCEPT !.pc = "setSuccess", !.events = Event(h, "count")])
    /\ UNCHANGED <<semaphore, rcloneSizeBytes, probeSuccess,
                   probeDurationSeconds, counters, lasts, env>>

\* e.probeSuccess.WithLabelValues(remote).Set(1)
SetSuccess(h) ==
    /\ h.pc = "setSuccess"
    /\ probeSuccess' = GaugeSet(probeSuccess, h.remote, 1)
    /\ Step(h, [h EXCEPT !.pc = "setLast", !.events = Event(h, "success")])
    /\ UNCHANGED <<semaphore, rcloneSizeBytes, rcloneObjectsCount,
                   probeDurationSeconds, counters, lasts, env>>

\* the last observed values, written together under e.mu
MutantSetLastApart(h) ==
    /\ h.pc = "setLast"
    /\ lastRcloneSizeBytes' = h.Bytes
    /\ lastProbeSuccess' = 1
    /\ Step(h, [h EXCEPT !.pc = "serve", !.events = Event(h, "lastSuccess")])
    /\ UNCHANGED <<semaphore, gauges, counters, lastRcloneObjectsCount,
                   lastProbeDurationSeconds, env>>
SetLast(h) ==
    /\ h.pc = "setLast"
    /\ lastRcloneSizeBytes' = h.Bytes
    /\ lastRcloneObjectsCount' = h.Count
    /\ lastProbeSuccess' = 1
    /\ Step(h, [h EXCEPT !.pc = "serve", !.events = Event(h, "lastSuccess")])
    /\ UNCHANGED <<semaphore, gauges, counters, lastProbeDurationSeconds, env>>

\* promhttp.HandlerFor(e.registry, ...).ServeHTTP(w, r), then ProbeHandler returns
Serve(h) ==
    /\ h.pc = "serve"
    /\ Step(h, [h EXCEPT !.pc = "return", !.status = StatusOK,
                         !.response = [status |-> StatusOK, body |-> "metrics",
                                       snapshot |-> Gather],
                         !.events = Event(h, "serve")])
    /\ UNCHANGED <<semaphore, gauges, counters, lasts, env>>

\* the deferred call that runs next: the one registered last
NextDeferred(defers) == defers[Len(defers)]
Pop(defers) == SubSeq(defers, 1, Len(defers) - 1)

\* deferred: duration := time.Since(start).Seconds(), written to the gauge
DeferredDuration(h, d) ==
    /\ h.pc = "return"
    /\ h.defers # <<>>
    /\ NextDeferred(h.defers) = "duration"
    /\ probeDurationSeconds' = GaugeSet(probeDurationSeconds, h.remote, d)
    /\ Step(h, [h EXCEPT !.pc = "durationLast", !.duration = d,
                         !.events = Event(h, "duration")])
    /\ UNCHANGED <<semaphore, rcloneSizeBytes, rcloneObjectsCount, probeSuccess,
                   counters, lasts, env>>

\* deferred: e.lastProbeDurationSeconds = duration under e.mu
DeferredDurationLast(h) ==
    /\ h.pc = "durationLast"
    /\ lastProbeDurationSeconds' = h.duration
    /\ Step(h, [h EXCEPT !.pc = "return", !.defers = Pop(h.defers),
                         !.events = Event(h, "lastDuration")])
    /\ UNCHANGED <<semaphore, gauges, counters, lastRcloneSizeBytes,
                   lastRcloneObjectsCount, lastProbeSuccess, env>>

\* deferred: <-e.semaphore
DeferredRelease(h) ==
    /\ h.pc = "return"
    /\ h.defers # <<>>
    /\ NextDeferred(h.defers) = "release"
    /\ semaphore' = semaphore - 1
    /\ Step(h, [h EXCEPT !.defers = Pop(h.defers), !.events = Event(h, "release")])
    /\ UNCHANGED <<gauges, counters, lasts, env>>

\* ProbeHandler has returned: every deferred call has run
Handled(h) == h.pc = "return" /\ h.defers = <<>>

\* the goroutine of a handled request ends
Finish(h) ==
    /\ Handled(h)
    /\ goroutines' = goroutines (-) SetToBag({h})
    /\ UNCHANGED <<semaphore, gauges, counters, lasts, env>>

\* the steps of the goroutines that serve requests
HandlerSteps(R) ==
    \/ \E h \in Handlers : TryAcquire(h)
    \/ \E h \in Handlers : CallGetRemoteSize(h)
    \/ \E h \in Handlers : \E run \in R : ReturnGetRemoteSize(h, run)
    \/ \E h \in Handlers : HandleErrorInc(h)
    \/ \E h \in Handlers : HandleErrorGauge(h)
    \/ \E h \in Handlers : HandleErrorLast(h)
    \/ \E h \in Handlers : HandleErrorWrite(h)
    \/ \E h \in Handlers : SetSize(h)
    \/ \E h \in Handlers : SetCount(h)
    \/ \E h \in Handlers : SetSuccess(h)
    \/ \E h \in Handlers : SetLast(h)
    \/ \E h \in Handlers : Serve(h)
    \/ \E h \in Handlers : \E d \in Durations : DeferredDuration(h, d)
    \/ \E h \in Handlers : DeferredDurationLast(h)
    \/ \E h \in Handlers : DeferredRelease(h)
    \/ \E h \in Handlers : Finish(h)

NextOf(Q, R) ==
    \/ \E q \in Q : Receive(q)
    \/ HandlerSteps(R)

Next == NextOf(Queries, Runs)

Spec == Init /\ [][Next]_vars

\* A busy exporter: enough requests for one remote arrive to exhaust the
\* permit pool, and few of their external commands end.
BusyExtra == 2
BusyQueries == {Query(<<"a">>)}
BusyRuns == {RunOf(TRUE, TRUE, -1, OutEmpty), RunOf(TRUE, FALSE, 0, OutObject(1, 2))}

InitBusy ==
    /\ NewExporter
    /\ Serving
    /\ goroutines = EmptyBag
    /\ alone = TRUE
    /\ errorResponses = 0
    /\ arrivals = MaxConcurrentProbes + BusyExtra
    /\ returns = MaxReturns

NextBusy == NextOf(BusyQueries, BusyRuns)

SpecBusy == InitBusy /\ [][NextBusy]_vars

\* The busy exporter with its goroutines scheduled fairly: a goroutine that
\* can take a step eventually takes one, and an external command whose end
\* the environment still allows eventually ends (it exits, or is killed when
\* the deadline of its context elapses).
SpecBusyLive == SpecBusy /\ WF_vars(HandlerSteps(BusyRuns))

\* validateRemote on its own: one call per identifier.  The identifiers are a
\* run of one character, of a length around the limit, with an optional
\* character in front and behind: characters of the class, their neighbours
\* in ASCII, white space and a two-byte character.
SampleChars == {"a", "z", "A", "Z", "0", "9", "_", "-", ".", ":", "/",
                "@", "[", "{", "~", ";", " ", "\n", "U+00E9"}
Affixes == {<<>>} \cup {<<c>> : c \in SampleChars}
RunLengths == {0, 1, MaxRemoteNameLength - 2, MaxRemoteNameLength - 1,
               MaxRemoteNameLength, MaxRemoteNameLength + 1}
ValidateInputs ==
    {hd \o Repeat("a", n) \o tl : hd \in Affixes, tl \in Affixes, n \in RunLengths}
    \cup {hd \o Repeat("U+00E9", 127) \o tl : hd \in Affixes, tl \in Affixes}

InitValidate ==
    /\ NewExporter
    /\ Serving
    /\ \E remote \in ValidateInputs :
           goroutines = SetToBag({[Entered EXCEPT !.remote = remote]})
    /\ alone = TRUE
    /\ errorResponses = 0
    /\ arrivals = 0
    /\ returns = 0

\* the call validateRemote(remote)
Validate(h) ==
    /\ h.pc = "entry"
    /\ Step(h, [h EXCEPT !.pc = "validated", !.err = validateRemote(h.remote)])
    /\ UNCHANGED <<semaphore, gauges, counters, lasts, env>>

NextValidate == \E h \in Handlers : Validate(h)

SpecValidate == InitValidate /\ [][NextValidate]_vars

\* GetRemoteSize on its own: one call per remote and run.  A run is what
\* cmd.CombinedOutput() and ctx.Err() report when the call returns: the
\* process could not be started, or it ended with an exit code (-1 when it
\* was killed), and the deadline of the context has or has not expired.
ClientOutputs == {OutEmpty, OutText, OutArray, OutNull, OutNoField,
                  OutOnlyCount(1), OutOnlyBytes(2), OutObject(1, 2),
                  OutObject(0, 0), OutObject(-1, 2), OutObject(2, -1)}
ExitCodes == {-1, 0, 1, 2}
ClientRuns ==
    {RunOf(FALSE, d, -1, OutEmpty) : d \in BOOLEAN}
    \cup {RunOf(TRUE, d, code, o) : d \in BOOLEAN, code \in ExitCodes, o \in ClientOutputs}
ClientRemotes == {<<>>, <<"a">>}

\* a call of GetRemoteSize before it returns
Called(remote, run) == [pc |-> "call", remote |-> remote, run |-> run,
                        result |-> Failure(NoError)]

InitClient ==
    /\ NewExporter
    /\ Serving
    /\ \E remote \in ClientRemotes : \E run \in ClientRuns :
           goroutines = SetToBag({Called(remote, run)})
    /\ alone = TRUE
    /\ errorResponses = 0
    /\ arrivals = 0
    /\ returns = 0

\* the call c.GetRemoteSize(remote) returns
ClientReturn(h) ==
    /\ h.pc = "call"
    /\ Step(h, [h EXCEPT !.pc = "returned", !.result = GetRemoteSize(h.remote, h.run)])
    /\ UNCHANGED <<semaphore, gauges, counters, lasts, env>>

NextClient == \E h \in Handlers : ClientReturn(h)

SpecClient == InitClient /\ [][NextClient]_vars

\* Requests one after the other: a request arrives only when the handler of
\* every earlier one has returned.
SequentialQueries == {Query(<<"a">>), Query(<<" ", "b", "\n">>)}
SequentialRuns == {RunOf(TRUE, FALSE, 1, OutText),
                   RunOf(TRUE, FALSE, 0, OutObject(1, 2)),
                   RunOf(TRUE, FALSE, 0, OutObject(2, 1))}

ReceiveNext(q) ==
    /\ \A h \in Handlers : Handled(h)
    /\ Receive(q)

NextSequential ==
    \/ \E q \in SequentialQueries : ReceiveNext(q)
    \/ HandlerSteps(SequentialRuns)

SpecSequential == Init /\ [][NextSequential]_vars

\* ---------------------------------------------------------------- runServer
\* runServer from its first statement: the flags rclone.path and
\* rclone.timeout are its inputs, the outcome of the check of the binary and
\* of the attempt to listen are the environment's.  The server serves the
\* probe endpoint with ProbeHandler and the metrics endpoint with the
\* handler of the exporter's registry.
MaxScrapes == 1      \* requests to the metrics endpoint during a behaviour

ErrBinary == "rclone binary is not accessible or not functioning"
ErrCrashed == "HTTP server crashed"

exporterState == <<semaphore, gauges, counters, lasts, goroutines>>
traffic == <<arrivals, returns, alone, errorResponses>>

\* runServer is entered with the flags path and timeout
Starting(path, timeout, scrapes) ==
    [pc |-> "start", rclonePath |-> path, rcloneTimeout |-> timeout,
     checked |-> FALSE, found |-> FALSE, runs |-> FALSE, exporter |-> FALSE,
     err |-> NoError, scrapes |-> scrapes, metrics |-> NoSnapshot,
     shutdown |-> "none", signal |-> "",
     shutdownTimeout |-> DefaultShutdownTimeout, deadline |-> -1,
     shutdownErr |-> NoError, closes |-> 0]

\* client := rclone.NewRcloneClientWithConfig(rclonePath, rcloneTimeout)
RunServerNewClient ==
    /\ server.pc = "start"
    /\ client' = NewRcloneClientWithConfig(server.rclonePath, server.rcloneTimeout)
    /\ server' = [server EXCEPT !.pc = "check"]
    /\ UNCHANGED <<exporterState, traffic, now, staleEntries, registry>>

\* client.CheckBinaryAvailable(): an error makes runServer return
RunServerCheck(found, runs) ==
    /\ server.pc = "check"
    /\ client' = IF found THEN [client EXCEPT !.binaryPath = LookPath(@)] ELSE client
    /\ LET err == CheckBinaryAvailable(found, runs)
           checked == [server EXCEPT !.checked = TRUE, !.found = found, !.runs = runs]
       IN  server' = IF err # NoError
                     THEN [checked EXCEPT !.pc = "returned", !.err = ErrBinary]
                     ELSE [checked EXCEPT !.pc = "newExporter"]
    /\ UNCHANGED <<exporterState, traffic, now, staleEntries, registry>>

\* exp := exporter.NewExporter(client), with exp.Close() deferred; the build
\* info is registered; the goroutine that waits for a signal is started
RunServerNewExporter ==
    /\ server.pc = "newExporter"
    /\ NewExporter
    /\ registry' = registry \cup {BuildInfoCollector}
    /\ server' = [server EXCEPT !.pc = "listen", !.exporter = TRUE,
                                !.shutdown = "waiting"]
    /\ UNCHANGED <<exporterState, traffic, client, now, staleEntries>>

\* server.ListenAndServe(): it serves; or it fails, and runServer returns
\* the error; or Shutdown has been called, and it returns ErrServerClosed
RunServerListen(bound) ==
    /\ server.pc = "listen"
    /\ server' = IF server.shutdown # "waiting"
                 THEN [server EXCEPT !.pc = "wait"]
                 ELSE IF bound
                 THEN [server EXCEPT !.pc = "listening"]
                 ELSE [server EXCEPT !.pc = "deferred", !.err = ErrCrashed]
    /\ UNCHANGED <<exporterState, traffic, client, now, staleEntries, registry>>

\* Close(): the collectors of the exporter are unregistered
GaugeCollectors == {SizeCollector, CountCollector, SuccessCollector, DurationCollector}
MutantUnregisterGauges(reg) == reg \ GaugeCollectors
Unregistered(reg) == reg \ Collectors

\* runServer returns: the deferred exp.Close() runs
RunServerReturn ==
    /\ server.pc = "deferred"
    /\ registry' = Unregistered(registry)
    /\ server' = [server EXCEPT !.pc = "returned", !.closes = @ + 1]
    /\ UNCHANGED <<exporterState, traffic, client, now, staleEntries>>

\* exp.Registry(): the registry NewExporter created
Registry == Gather

\* a GET on the metrics endpoint: promhttp.HandlerFor(exp.Registry(), ...)
MutantMetricsCountsRequest ==
    /\ Accepting
    /\ server.scrapes > 0
    /\ server' = [server EXCEPT !.scrapes = @ - 1, !.metrics = Registry]
    /\ probeRequestsTotal' = Inc(probeRequestsTotal)
    /\ UNCHANGED <<semaphore, gauges, scrapeErrorsTotal, lasts, goroutines, traffic,
                   client, now, staleEntries, registry>>
ServeMetrics ==
    /\ Accepting
    /\ server.scrapes > 0
    /\ server' = [server EXCEPT !.scrapes = @ - 1, !.metrics = Registry]
    /\ UNCHANGED <<exporterState, traffic, client, now, staleEntries, registry>>

RunServerSteps ==
    \/ RunServerNewClient
    \/ \E found \in BOOLEAN : \E runs \in BOOLEAN : RunServerCheck(found, runs)
    \/ RunServerNewExporter
    \/ \E bound \in BOOLEAN : RunServerListen(bound)
    \/ RunServerReturn

\* The service from the start of runServer, with the default flags and
\* enough requests for one remote to exhaust the permit pool.
ServerQueries == {Query(<<>>), Query(<<"a">>)}

InitServer ==
    /\ NewExporter
    /\ server = Starting(DefaultBinaryPath, DefaultTimeout, 0)
    /\ client = NoClient
    /\ now = 0
    /\ staleEntries = {}
    /\ goroutines = EmptyBag
    /\ alone = TRUE
    /\ errorResponses = 0
    /\ arrivals = MaxConcurrentProbes + BusyExtra
    /\ returns = MaxReturns

NextServer ==
    \/ RunServerSteps
    \/ NextOf(ServerQueries, BusyRuns)

SpecServer == InitServer /\ [][NextServer]_vars

\* The service from the start of runServer, for every value of the flags,
\* with few requests and a request to the metrics endpoint.
PathFlags == {"", "rclone", "/opt/rclone"}
TimeoutFlags == {-1, 0, 1, 3}

InitConfig ==
    /\ NewExporter
    /\ \E path \in PathFlags : \E timeout \in TimeoutFlags :
           server = Starting(path, timeout, MaxScrapes)
    /\ client = NoClient
    /\ now = 0
    /\ staleEntries = {}
    /\ goroutines = EmptyBag
    /\ alone = TRUE
    /\ errorResponses = 0
    /\ arrivals = MaxArrivals
    /\ returns = MaxReturns

NextConfig ==
    \/ RunServerSteps
    \/ NextOf(ServerQueries, BusyRuns)
    \/ ServeMetrics

SpecConfig == InitConfig /\ [][NextConfig]_vars

\* ----------------------------------------------------------------- shutdown
\* runServer from its start to its return, with the goroutine that waits for
\* a signal and shuts the server down.
Signals == {"SIGINT", "SIGTERM"}
ShutdownTimeouts == {0, DefaultShutdownTimeout}
ErrDeadlineExceeded == "context deadline exceeded"

\* context.WithTimeout(context.Background(), shutdownTimeout)
MutantShutdownDeadline(shutdownTimeout) == DefaultShutdownTimeout
ShutdownDeadline(shutdownTimeout) == shutdownTimeout

\* <-sigCh: the goroutine receives the signal and calls server.Shutdown(ctx),
\* which closes the listener
Signal(sig) ==
    /\ server.pc \in {"listen", "listening"}
    /\ server.shutdown = "waiting"
    /\ server' = [server EXCEPT !.shutdown = "shutting", !.signal = sig,
                                !.deadline = ShutdownDeadline(server.shutdownTimeout)]
    /\ UNCHANGED <<exporterState, traffic, client, now, staleEntries, registry>>

\* server.Shutdown(ctx) returns, with no error once no request is in flight
\* and with the error of the context at its deadline; the error is logged,
\* and the deferred close(idleConnsClosed) runs
ShutdownReturns ==
    /\ server.shutdown = "shutting"
    /\ server' = [server EXCEPT !.shutdown = "done",
                                !.shutdownErr = IF Quiescent THEN NoError
                                                ELSE ErrDeadlineExceeded]
    /\ UNCHANGED <<exporterState, traffic, client, now, staleEntries, registry>>

\* server.ListenAndServe() returns ErrServerClosed after Shutdown was called
ServerClosed ==
    /\ server.pc = "listening"
    /\ server.shutdown # "waiting"
    /\ server' = [server EXCEPT !.pc = "wait"]
    /\ UNCHANGED <<exporterState, traffic, client, now, staleEntries, registry>>

\* server.ListenAndServe() returns another error while it serves
ServeFails ==
    /\ server.pc = "listening"
    /\ server.shutdown = "waiting"
    /\ server' = [server EXCEPT !.pc = "deferred", !.err = ErrCrashed]
    /\ UNCHANGED <<exporterState, traffic, client, now, staleEntries, registry>>

\* <-idleConnsClosed, then return nil
RunServerWait ==
    /\ server.pc = "wait"
    /\ server.shutdown = "done"
    /\ server' = [server EXCEPT !.pc = "deferred"]
    /\ UNCHANGED <<exporterState, traffic, client, now, staleEntries, registry>>

InitShutdown ==
    /\ NewExporter
    /\ \E shutdownTimeout \in ShutdownTimeouts :
           server = [Starting(DefaultBinaryPath, DefaultTimeout, 0)
                        EXCEPT !.shutdownTimeout = shutdownTimeout]
    /\ client = NoClient
    /\ now = 0
    /\ staleEntries = {}
    /\ goroutines = EmptyBag
    /\ alone = TRUE
    /\ errorResponses = 0
    /\ arrivals = MaxArrivals
    /\ returns = MaxReturns

\* the steps of runServer's own goroutines
ServerSteps ==
    \/ RunServerSteps
    \/ ShutdownReturns
    \/ ServerClosed
    \/ RunServerWait

NextShutdown ==
    \/ ServerSteps
    \/ \E sig \in Signals : Signal(sig)
    \/ ServeFails
    \/ NextOf(ServerQueries, BusyRuns)

SpecShutdown == InitShutdown /\ [][NextShutdown]_vars
\* a goroutine that can run does run, and Shutdown returns at its deadline
SpecShutdownLive == SpecShutdown /\ WF_vars(ServerSteps)

\* An exporter on its own, as a caller of NewExporter uses it: requests are
\* served, and Close is called, more than once.
MaxCloses == 2       \* calls of Close during a behaviour

\* Close()
Close ==
    /\ server.closes < MaxCloses
    /\ registry' = Unregistered(registry)
    /\ server' = [server EXCEPT !.closes = @ + 1]
    /\ UNCHANGED <<exporterState, traffic, client, now, staleEntries>>

NextClose ==
    \/ Next
    \/ Close

SpecClose == Init /\ [][NextClose]_vars

\* ------------------------------------------------------------ GetRemoteType
\* The cache of remote types on its own: calls of GetRemoteType, possibly
\* concurrent, calls of InvalidateCache and ClearCache, and the clock.
MaxCalls == 2        \* calls of GetRemoteType during a behaviour
MaxClock == 5        \* minutes the clock advances during a behaviour

RemoteNames == {<<"a">>, <<"a", ":">>, <<"a", ":", ":">>, <<"b">>}
Dumps == {DumpFailed, DumpEmpty, DumpGarbage, DumpNull,
          DumpOf(<<"a">> :> TypeOf("s3") @@ <<"b">> :> TypeOf("drive")),
          DumpOf(<<"a">> :> TypeOf(TypeUnknown)),
          DumpOf(<<"a">> :> NoTypeField),
          DumpOf(<<"a">> :> TypeNotString @@ <<"b">> :> TypeOf("s3"))}

InitCache ==
    /\ NewExporter
    /\ Serving
    /\ goroutines = EmptyBag
    /\ alone = TRUE
    /\ errorResponses = 0
    /\ arrivals = MaxCalls
    /\ returns = 0

\* GetRemoteType(name) up to the read of the cache: it returns the cached
\* type, or goes on to run the config dump
CallGetRemoteType(name) ==
    /\ arrivals > 0
    /\ arrivals' = arrivals - 1
    /\ LET remoteName == TrimSuffix(name)
           call == [pc |-> "dump", name |-> name, remoteName |-> remoteName,
                    type |-> "", err |-> NoError, dump |-> DumpFailed, at |-> now,
                    stale |-> FALSE]
           h == IF Cached(client, remoteName, now)
                THEN [call EXCEPT !.pc = "cached",
                                  !.type = client.remoteTypeCache[remoteName],
                                  !.stale = remoteName \in staleEntries]
                ELSE call
       IN  goroutines' = goroutines (+) SetToBag({h})
    /\ UNCHANGED <<semaphore, gauges, counters, lasts, returns, alone, errorResponses,
                   process>>

\* the config dump ends: GetRemoteType holds the output of the command
RunConfigDump(h, dump) ==
    /\ h.pc = "dump"
    /\ Step(h, [h EXCEPT !.pc = "parse", !.dump = dump])
    /\ UNCHANGED <<semaphore, gauges, counters, lasts, traffic, process>>

\* GetRemoteType decodes the output, updates the cache and returns
ReturnGetRemoteType(h) ==
    /\ h.pc = "parse"
    /\ LET result == LookupType(h.remoteName, h.dump)
       IN  /\ client' = CacheAfterLookup(client, h.remoteName, result, now)
           /\ staleEntries' = IF result.err # NoError THEN staleEntries
                              ELSE IF h.stale THEN staleEntries \cup {h.remoteName}
                              ELSE staleEntries \ {h.remoteName}
           /\ Step(h, [h EXCEPT !.pc = "looked up", !.at = now,
                                !.type = result.type, !.err = result.err])
    /\ UNCHANGED <<semaphore, gauges, counters, lasts, traffic, server, now, registry>>

\* the calls in flight that hold a config dump read before the entries of
\* these keys were removed
Outdated(calls, keys) ==
    LET hit(h) == h.pc = "parse" /\ h.remoteName \in keys /\ ~h.stale
        fresh(g) == [g EXCEPT !.stale = FALSE]
    IN  [g \in {IF hit(h) THEN [h EXCEPT !.stale = TRUE] ELSE h : h \in DOMAIN calls} |->
            (IF g \in DOMAIN calls THEN calls[g] ELSE 0)
            + (IF g.stale /\ hit(fresh(g)) /\ fresh(g) \in DOMAIN calls
               THEN calls[fresh(g)] ELSE 0)]

\* InvalidateCache(name)
InvalidateCache(name) ==
    LET remoteName == TrimSuffix(name)
    IN  /\ client' = [client EXCEPT !.remoteTypeCache = Delete(@, remoteName),
                                    !.cacheTimestamps = Delete(@, remoteName)]
        /\ staleEntries' = staleEntries \ {remoteName}
        /\ goroutines' = Outdated(goroutines, {remoteName})
        /\ UNCHANGED <<semaphore, gauges, counters, lasts, traffic, server, now, registry>>

\* ClearCache()
ClearCache ==
    /\ client' = [client EXCEPT !.remoteTypeCache = EmptyMap,
                                !.cacheTimestamps = EmptyMap]
    /\ staleEntries' = {}
    /\ goroutines' = Outdated(goroutines, {h.remoteName : h \in BagToSet(goroutines)})
    /\ UNCHANGED <<semaphore, gauges, counters, lasts, traffic, server, now, registry>>

\* a minute passes
Tick ==
    /\ now < MaxClock
    /\ now' = now + 1
    /\ UNCHANGED <<exporterState, traffic, server, client, staleEntries, registry>>

NextCache ==
    \/ \E name \in RemoteNames : CallGetRemoteType(name)
    \/ \E h \in Handlers : \E dump \in Dumps : RunConfigDump(h, dump)
    \/ \E h \in Handlers : ReturnGetRemoteType(h)
    \/ \E name \in RemoteNames : InvalidateCache(name)
    \/ ClearCache
    \/ Tick

SpecCache == InitCache /\ [][NextCache]_vars

\* ---------------------------------------------------- GetRemoteSizeWithType
\* Calls of GetRemoteSizeWithType, possibly concurrent, over one cache.
SizeNames == {<<>>, <<"a">>, <<"a", ":">>, <<"b">>}
SizeRuns == {RunOf(TRUE, TRUE, -1, OutEmpty), RunOf(TRUE, FALSE, 1, OutText),
             RunOf(TRUE, FALSE, 0, OutObject(1, 2))}
TypeDumps == {DumpFailed, DumpOf(<<"a">> :> TypeOf("s3")),
              DumpOf(<<"a">> :> NoTypeField)}

\* the *RemoteSizeWithType the call returns
NilSizeWithType == [isNil |-> TRUE, RcloneSizeOutput |-> Failure(NoError), RemoteType |-> ""]
RemoteSizeWithType(sizeOutput, remoteType) ==
    [isNil |-> FALSE, RcloneSizeOutput |-> sizeOutput, RemoteType |-> remoteType]

\* what GetRemoteSizeWithType returns for the results of its two calls
MutantTypeErrorFails(sizeOutput, typeResult) ==
    IF sizeOutput.err # NoError \/ typeResult.err # NoError
    THEN [result |-> NilSizeWithType,
          err |-> IF sizeOutput.err # NoError THEN sizeOutput.err ELSE typeResult.err]
    ELSE [result |-> RemoteSizeWithType(sizeOutput, typeResult.type), err |-> NoError]
GetRemoteSizeWithType(sizeOutput, typeResult) ==
    IF sizeOutput.err # NoError
    THEN [result |-> NilSizeWithType, err |-> sizeOutput.err]
    ELSE [result |-> RemoteSizeWithType(sizeOutput,
                        IF typeResult.err # NoError THEN TypeUnknown
                        ELSE typeResult.type),
          err |-> NoError]

InitSizeWithType ==
    /\ NewExporter
    /\ Serving
    /\ goroutines = EmptyBag
    /\ alone = TRUE
    /\ errorResponses = 0
    /\ arrivals = MaxCalls
    /\ returns = 0

\* GetRemoteSizeWithType(name) calls GetRemoteSize
CallGetRemoteSizeWithType(name) ==
    /\ arrivals > 0
    /\ arrivals' = arrivals - 1
    /\ goroutines' = goroutines (+) SetToBag({
            [pc |-> "size", name |-> name, remoteName |-> TrimSuffix(name),
             type |-> "", err |-> NoError, dump |-> DumpFailed, at |-> now,
             stale |-> FALSE, sizeOutput |-> Failure(NoError), typeCalls |-> 0,
             out |-> [result |-> NilSizeWithType, err |-> NoError]]})
    /\ UNCHANGED <<semaphore, gauges, counters, lasts, returns, alone, errorResponses,
                   process>>

\* GetRemoteSize returns: the call returns its error, or goes on to
\* GetRemoteType, which reads the cache
SizeReturns(h, run) ==
    /\ h.pc = "size"
    /\ LET sizeOutput == GetRemoteSize(h.name, run)
           failed == GetRemoteSizeWithType(sizeOutput, TypeFailure(NoError))
           g == [h EXCEPT !.sizeOutput = sizeOutput]
       IN  Step(h, IF sizeOutput.err # NoError
                   THEN [g EXCEPT !.pc = "returned", !.out = failed]
                   ELSE IF Cached(client, h.remoteName, now)
                   THEN [g EXCEPT !.pc = "cached", !.typeCalls = 1,
                                  !.type = client.remoteTypeCache[h.remoteName]]
                   ELSE [g EXCEPT !.pc = "dump", !.typeCalls = 1])
    /\ UNCHANGED <<semaphore, gauges, counters, lasts, traffic, process>>

\* GetRemoteType has returned, and GetRemoteSizeWithType returns
ReturnGetRemoteSizeWithType(h) ==
    /\ h.pc \in {"cached", "looked up"}
    /\ Step(h, [h EXCEPT !.pc = "returned",
                         !.out = GetRemoteSizeWithType(h.sizeOutput,
                                     [type |-> h.type, err |-> h.err])])
    /\ UNCHANGED <<semaphore, gauges, counters, lasts, traffic, process>>

NextSizeWithType ==
    \/ \E name \in SizeNames : CallGetRemoteSizeWithType(name)
    \/ \E h \in Handlers : \E run \in SizeRuns : SizeReturns(h, run)
    \/ \E h \in Handlers : \E dump \in TypeDumps : RunConfigDump(h, dump)
    \/ \E h \in Handlers : ReturnGetRemoteType(h)
    \/ \E h \in Handlers : ReturnGetRemoteSizeWithType(h)

SpecSizeWithType == InitSizeWithType /\ [][NextSizeWithType]_vars

\* ------------------------------------------------------------------ claims
Occurrences(seq, e) == Cardinality({i \in 1..Len(seq) : seq[i] = e})
Happened(h, e) == Occurrences(h.events, e) > 0
\* the position of the first occurrence of e in the events of h
FirstAt(h, e) == SetMin({i \in 1..Len(h.events) : h.events[i] = e})

\* goroutine h takes the step that makes it g
Took(h, g) ==
    /\ BagIn(h, goroutines)
    /\ goroutines' = (goroutines (-) SetToBag({h})) (+) SetToBag({g})

\* the goroutine holds a permit: its deferred release is still to run
HoldsPermit(h) == \E i \in 1..Len(h.defers) : h.defers[i] = "release"
Holders == {h \in Handlers : HoldsPermit(h)}
CountOf(S) == BagCardinality([h \in S |-> goroutines[h]])
InExec == {h \in Handlers : h.pc = "exec"}

\* C1: the external command runs only in goroutines that hold a permit, the
\* runs in progress are at most the permits held, and the permits held are
\* at most MaxConcurrentProbes.
C1_RunsWithinPermits ==
    /\ \A h \in InExec : HoldsPermit(h)
    /\ CountOf(InExec) <= semaphore
    /\ semaphore <= MaxConcurrentProbes
    /\ semaphore = CountOf(Holders)

C1_Witness == CountOf(InExec) = MaxConcurrentProbes /\ semaphore = MaxConcurrentProbes

Rejected(h) == h.status = StatusTooManyRequests

\* C2: a validated request that attempts to acquire a permit while
\* MaxConcurrentProbes permits are held goes to the 429 response in that very
\* step, the attempt is always possible (it never waits), and a request
\* answered with 429 has neither acquired nor released a permit nor run the
\* external command.
C2_FullPoolRejects ==
    /\ [](\A h \in Handlers :
            /\ h.pc = "acquire" => ENABLED TryAcquire(h)
            /\ Rejected(h) =>
                 /\ ~Happened(h, "acquire") /\ ~Happened(h, "release")
                 /\ ~Happened(h, "exec")
                 /\ ~HoldsPermit(h)
                 /\ h.response.status \in {0, StatusTooManyRequests})
    /\ [][\A h \in Handlers : \A g \in BagToSet(goroutines') :
            (h.pc = "acquire" /\ semaphore = MaxConcurrentProbes /\ Took(h, g))
            => (Rejected(g) /\ g.pc = "handleError" /\ semaphore' = semaphore)]_vars

C2_Witness ==
    \E h \in Handlers :
        /\ Handled(h) /\ Rejected(h) /\ h.response.status = StatusTooManyRequests
        /\ semaphore = MaxConcurrentProbes

\* C3: a handled request has released exactly as many permits as it acquired,
\* at most one; the permits held are those of the goroutines whose release is
\* still deferred; and with no request in flight no permit is held.
C3_PermitReleased ==
    /\ \A h \in Handlers :
         /\ Occurrences(h.events, "acquire") <= 1
         /\ Handled(h) =>
              Occurrences(h.events, "release") = Occurrences(h.events, "acquire")
         /\ ~Happened(h, "acquire") => ~Happened(h, "release")
    /\ semaphore = CountOf(Holders)
    /\ Quiescent => semaphore = 0

C3_Witness ==
    \E h \in Handlers :
        /\ Handled(h) /\ h.status = StatusInternalServerError
        /\ Occurrences(h.events, "release") = 1
        /\ semaphore = 0

\* the request of goroutine h has had its external command run
Ran(h) == Happened(h, "exec") /\ h.pc # "exec"

\* C4: for every request that ran the external command, the duration is
\* written before the permit is released, and for a 200 response the permit
\* is released before the snapshot is served, so that the served snapshot
\* holds the duration this request measured.
C4_TerminalOrder ==
    \A h \in Handlers :
        (Handled(h) /\ Ran(h)) =>
            /\ Happened(h, "duration") /\ Happened(h, "release")
            /\ FirstAt(h, "duration") < FirstAt(h, "release")
            /\ h.response.status = StatusOK =>
                 /\ FirstAt(h, "release") < FirstAt(h, "serve")
                 /\ h.remote \in DOMAIN h.response.snapshot.duration
                 /\ h.response.snapshot.duration[h.remote] = h.duration

\* the request of h has written a non-negative duration to the gauge entry of
\* its remote
DurationSetBy(h) ==
    /\ Happened(h, "duration")
    /\ h.duration >= 0
    /\ h.remote \in DOMAIN probeDurationSeconds
    /\ probeDurationSeconds[h.remote] >= 0

GoodRun(run) ==
    /\ run.started /\ run.exitCode = 0
    /\ run.output.kind = "object" /\ run.output.hasCount /\ run.output.hasBytes
    /\ run.output.count >= 0 /\ run.output.bytes >= 0

\* C6: a probe of remote R that ran with no other request in flight and whose
\* external command printed a valid result (c, b) is answered 200 with a
\* snapshot whose entries for R are size = b, object count = c, success = 1.
C6_SoloSuccessSnapshot ==
    \A h \in Handlers :
        (alone /\ Ran(h) /\ GoodRun(h.run) /\ h.pc = "return") =>
            LET snapshot == h.response.snapshot
            IN  /\ h.response.status = StatusOK
                /\ h.remote \in DOMAIN snapshot.size
                /\ snapshot.size[h.remote] = h.run.output.bytes
                /\ h.remote \in DOMAIN snapshot.count
                /\ snapshot.count[h.remote] = h.run.output.count
                /\ h.remote \in DOMAIN snapshot.success
                /\ snapshot.success[h.remote] = 1

C6_Witness ==
    \E h \in Handlers :
        /\ alone /\ Handled(h) /\ GoodRun(h.run) /\ h.response.status = StatusOK
        /\ probeRequestsTotal = 2
        /\ h.response.snapshot.size[h.remote] = 1

\* the runner or the parser fails on this run: the command did not start,
\* was killed at the deadline, exited non-zero, printed nothing, printed
\* something that is no JSON object, or printed a negative count or size
BadRun(run) ==
    \/ ~run.started
    \/ run.exitCode # 0
    \/ run.output.kind # "object"
    \/ run.output.count < 0
    \/ run.output.bytes < 0

Failing(h) == Ran(h) /\ BadRun(h.run)
EventsAdded(h, g, e) == Occurrences(g.events, e) - Occurrences(h.events, e)

\* C7: a probe that holds a permit and whose run fails is answered 500,
\* increments the error counter exactly once, sets the success gauge of its
\* remote to 0, and none of its steps changes a size or object-count entry.
C7_FailedProbe ==
    /\ [](\A h \in Handlers :
            Failing(h) =>
                /\ h.status = StatusInternalServerError
                /\ ~Happened(h, "size") /\ ~Happened(h, "count")
                /\ h.pc = "return" =>
                     /\ h.response.status = StatusInternalServerError
                     /\ Occurrences(h.events, "errors") = 1
                     /\ Occurrences(h.events, "success") = 1
                /\ (alone /\ h.pc = "return") =>
                     (h.remote \in DOMAIN probeSuccess /\ probeSuccess[h.remote] = 0))
    /\ [][\A h \in Handlers : \A g \in BagToSet(goroutines') :
            (Took(h, g) /\ Failing(g)) =>
                /\ rcloneSizeBytes' = rcloneSizeBytes
                /\ rcloneObjectsCount' = rcloneObjectsCount
                /\ scrapeErrorsTotal' = scrapeErrorsTotal + EventsAdded(h, g, "errors")
                /\ EventsAdded(h, g, "success") > 0 => probeSuccess'[g.remote] = 0]_vars

C7_Witness ==
    \E h \in Handlers :
        /\ Handled(h) /\ h.status = StatusInternalServerError
        /\ h.run.exitCode = 0 /\ h.run.output.count < 0
        /\ h.remote \in DOMAIN rcloneObjectsCount
        /\ rcloneObjectsCount[h.remote] = 1

\* C8: the body of every 500 response is the error detail GetRemoteSize
\* returned, so that a timeout is told apart from the other failures.
C8_BodyCarriesDetail ==
    \A h \in Handlers :
        h.response.status = StatusInternalServerError =>
            /\ h.response.body = h.err
            /\ h.run.deadlineExceeded => h.response.body = ErrTimedOut

\* the identifier is empty, longer than 255 or has a character outside
\* [A-Za-z0-9_.:/-]
InvalidName(s) ==
    \/ s = <<>>
    \/ ByteLen(s) > 255
    \/ \E i \in 1..Len(s) : s[i] \notin RegexClass

\* C9: a request whose remote parameter is invalid goes to the 400 response:
\* it increments the error counter exactly once and neither attempts to
\* acquire a permit nor runs the external command.
C9_InvalidRemoteRejected ==
    /\ [](\A h \in Handlers :
            InvalidName(h.remote) =>
                /\ h.status = StatusBadRequest
                /\ h.pc \in {"handleError", "errorGauge", "errorLast", "errorWrite", "return"}
                /\ ~Happened(h, "acquire") /\ ~Happened(h, "exec")
                /\ ~HoldsPermit(h)
                /\ h.pc = "return" =>
                     /\ h.response.status = StatusBadRequest
                     /\ Occurrences(h.events, "errors") = 1)
    /\ [][\A h \in Handlers : \A g \in BagToSet(goroutines') :
            (Took(h, g) /\ InvalidName(g.remote)) =>
                /\ semaphore' = semaphore
                /\ scrapeErrorsTotal' = scrapeErrorsTotal + EventsAdded(h, g, "errors")]_vars

C9_Witness ==
    \E h1, h2 \in Handlers :
        /\ Handled(h1) /\ ByteLen(h1.remote) > 255
        /\ h1.response.status = StatusBadRequest
        /\ Handled(h2) /\ ByteLen(h2.remote) <= 255 /\ ~remoteNameRegex(h2.remote)
        /\ h2.remote # <<>>
        /\ h2.response.status = StatusBadRequest

\* every character of the identifier is in [A-Za-z0-9_.:/-]
AllowedChars(s) == \A i \in 1..Len(s) : s[i] \in RegexClass

\* C10: validateRemote accepts an identifier exactly when it is non-empty, at
\* most 255 long (in bytes, and equally in characters) and made of characters
\* of [A-Za-z0-9_.:/-]; otherwise it returns the error of the first check
\* that fails, in the order empty, too long, invalid characters.
C10_ValidateRemote ==
    \A h \in Handlers :
        h.pc = "validated" =>
            LET s == h.remote
            IN  /\ h.err = NoError <=>
                     (s # <<>> /\ ByteLen(s) <= 255 /\ AllowedChars(s))
                /\ h.err = NoError <=>
                     (s # <<>> /\ Len(s) <= 255 /\ AllowedChars(s))
                /\ h.err \in {NoError, ErrEmptyName, ErrNameTooLong, ErrInvalidChars}
                /\ h.err = ErrEmptyName <=> s = <<>>
                /\ h.err = ErrNameTooLong <=> (s # <<>> /\ ByteLen(s) > 255)
                /\ h.err = ErrInvalidChars <=>
                     (s # <<>> /\ ByteLen(s) <= 255 /\ ~AllowedChars(s))

C10_Witness ==
    \E h \in Handlers :
        /\ h.pc = "validated" /\ h.err = NoError
        /\ Len(h.remote) = 255

AllWhiteSpace(s) == \A i \in 1..Len(s) : s[i] \in WhiteSpace
\* t has no white space at either end
NoSurroundingSpace(t) == t = <<>> \/ (t[1] \notin WhiteSpace /\ t[Len(t)] \notin WhiteSpace)
\* t is raw without its surrounding white space
IsTrimOf(raw, t) ==
    /\ NoSurroundingSpace(t)
    /\ Len(t) <= Len(raw)
    /\ \E i \in 0..(Len(raw) - Len(t)) :
           /\ SubSeq(raw, i + 1, i + Len(t)) = t
           /\ AllWhiteSpace(SubSeq(raw, 1, i))
           /\ AllWhiteSpace(SubSeq(raw, i + Len(t) + 1, Len(raw)))
GaugeLabels == DOMAIN rcloneSizeBytes \cup DOMAIN rcloneObjectsCount
               \cup DOMAIN probeSuccess \cup DOMAIN probeDurationSeconds

\* C11: the remote parameter is trimmed of surrounding white space before it
\* is validated: a parameter of white space only is handled as the empty one
\* and answered 400, and a parameter with white space around a valid name is
\* not rejected, runs the command with the trimmed name and writes its gauge
\* entries under the trimmed name.
C11_TrimmedBeforeValidation ==
    /\ \A h \in Handlers :
        /\ IsTrimOf(h.raw, h.remote)
        /\ AllWhiteSpace(h.raw) =>
             /\ h.remote = <<>>
             /\ h.status = StatusBadRequest
             /\ h.message = InvalidRemoteMessage(ErrEmptyName)
             /\ ~Happened(h, "exec")
        /\ (~AllWhiteSpace(h.raw) /\ ~InvalidName(h.remote)) =>
             /\ h.status # StatusBadRequest
             /\ Happened(h, "exec") => h.arg = h.remote
             /\ (Handled(h) /\ h.status # StatusTooManyRequests) =>
                  (h.remote \in DOMAIN probeSuccess /\ h.remote \in DOMAIN probeDurationSeconds)
    /\ \A l \in GaugeLabels : l # <<>> /\ NoSurroundingSpace(l)

C11_Witness ==
    \E h1, h2 \in Handlers :
        /\ Handled(h1) /\ h1.raw = <<" ", "b", "\n">>
        /\ h1.response.status = StatusOK
        /\ <<"b">> \in DOMAIN rcloneSizeBytes
        /\ Handled(h2) /\ h2.raw = <<" ", "\t">>
        /\ h2.response.status = StatusBadRequest

\* C12: the external command is run at most once per request, and only with
\* the request's own parameter, trimmed, which is a valid identifier.
C12_OnlyValidatedArgument ==
    \A h \in Handlers :
        /\ Occurrences(h.events, "exec") <= 1
        /\ Happened(h, "exec") =>
             /\ ~InvalidName(h.arg)
             /\ IsTrimOf(h.raw, h.arg)
        /\ ~Happened(h, "exec") => h.arg = <<>>

C12_Witness ==
    \E h1, h2 \in Handlers :
        /\ Handled(h1) /\ Happened(h1, "exec")
        /\ h1.raw = <<" ", "b", "\n">> /\ h1.arg = <<"b">>
        /\ Handled(h2) /\ h2.raw = <<"a", ";">> /\ ~Happened(h2, "exec")

\* C13: the requests counter is incremented once per request received, as
\* the first effect of the request; the error counter is never above it,
\* neither counter ever decreases, and whenever no request is in flight the
\* error counter equals the number of responses written with 400, 429 or 500.
C13_LifetimeCounters ==
    /\ [](/\ probeRequestsTotal = MaxArrivals - arrivals
          /\ scrapeErrorsTotal <= probeRequestsTotal
          /\ errorResponses <= scrapeErrorsTotal
          /\ Quiescent => scrapeErrorsTotal = errorResponses
          /\ \A h \in Handlers :
                /\ h.events[1] = "requests"
                /\ Occurrences(h.events, "requests") = 1
                /\ Occurrences(h.events, "errors") <= 1
                /\ h.response.status \in ErrorStatuses => Occurrences(h.events, "errors") = 1
                /\ h.response.status = StatusOK => Occurrences(h.events, "errors") = 0)
    /\ [][/\ probeRequestsTotal' >= probeRequestsTotal
          /\ scrapeErrorsTotal' >= scrapeErrorsTotal
          /\ probeRequestsTotal' - probeRequestsTotal = arrivals - arrivals']_vars

C13_Witness ==
    /\ Quiescent
    /\ probeRequestsTotal = 2
    /\ scrapeErrorsTotal = 1
    /\ errorResponses = 1

\* the gauge vector has the same entries before and after, except for label A
SameElsewhere(before, after, A) ==
    \A B \in (DOMAIN before \cup DOMAIN after) \ {A} :
        B \in DOMAIN before /\ B \in DOMAIN after /\ after[B] = before[B]

\* C14: a step of a request for remote A changes no size, object-count,
\* success or duration entry of another remote, and a step that is no
\* goroutine's (an arrival, the end of a goroutine) changes no entry at all.
C14_OtherRemotesUntouched ==
    [][/\ \A h \in Handlers : \A g \in BagToSet(goroutines') :
            Took(h, g) =>
                /\ g.remote = h.remote
                /\ SameElsewhere(rcloneSizeBytes, rcloneSizeBytes', h.remote)
                /\ SameElsewhere(rcloneObjectsCount, rcloneObjectsCount', h.remote)
                /\ SameElsewhere(probeSuccess, probeSuccess', h.remote)
                /\ SameElsewhere(probeDurationSeconds, probeDurationSeconds', h.remote)
       /\ (~ \E h \in Handlers : \E g \in BagToSet(goroutines') : Took(h, g)) =>
            gauges' = gauges]_vars

C14_Witness ==
    \E h \in Handlers :
        /\ Handled(h) /\ h.remote = <<"a">>
        /\ h.response.status = StatusInternalServerError
        /\ <<"a">> \in DOMAIN probeSuccess /\ probeSuccess[<<"a">>] = 0
        /\ <<"a">> \in DOMAIN probeDurationSeconds
        /\ <<"b">> \in DOMAIN probeSuccess /\ probeSuccess[<<"b">>] = 1
        /\ <<"b">> \in DOMAIN rcloneSizeBytes /\ rcloneSizeBytes[<<"b">>] = 2
        /\ <<"b">> \in DOMAIN probeDurationSeconds
        /\ probeDurationSeconds[<<"b">>] # probeDurationSeconds[<<"a">>]

\* C15: when the only two requests so far were successful probes of the same
\* remote R and both have been handled, the (object-count, size) pair of R is
\* the result of one of the two, never the count of one with the size of the
\* other.
C15_NoMixedPair ==
    \A h1, h2 \in Handlers :
        ( /\ probeRequestsTotal = 2
          /\ goroutines = SetToBag({h1}) (+) SetToBag({h2})
          /\ Handled(h1) /\ Handled(h2)
          /\ h1.response.status = StatusOK /\ h2.response.status = StatusOK
          /\ h1.remote = h2.remote ) =>
            <<rcloneObjectsCount[h1.remote], rcloneSizeBytes[h1.remote]>>
                \in {<<h1.Count, h1.Bytes>>, <<h2.Count, h2.Bytes>>}

\* C16: the snapshot served for a probe of remote R holds no size,
\* object-count, success or duration series of a remote other than R.
C16_NoStaleSeries ==
    \A h \in Handlers :
        h.response.status = StatusOK =>
            LET snapshot == h.response.snapshot
            IN  /\ DOMAIN snapshot.size \subseteq {h.remote}
                /\ DOMAIN snapshot.count \subseteq {h.remote}
                /\ DOMAIN snapshot.success \subseteq {h.remote}
                /\ DOMAIN snapshot.duration \subseteq {h.remote}

\* C17: when the only two requests so far were probes of the same remote R,
\* one after the other, whose runs were the same successful run, both are
\* answered 200 and the size, object-count and success entries of R are the
\* same in the first snapshot, in the second snapshot and in the registry.
C17_SameProbeTwice ==
    \A h1, h2 \in Handlers :
        ( /\ probeRequestsTotal = 2
          /\ goroutines = SetToBag({h1}) (+) SetToBag({h2})
          /\ Handled(h1) /\ Handled(h2)
          /\ h1.remote = h2.remote
          /\ h1.run = h2.run /\ GoodRun(h1.run) ) =>
            LET R == h1.remote
                first == h1.response.snapshot
                second == h2.response.snapshot
            IN  /\ h1.response.status = StatusOK /\ h2.response.status = StatusOK
                /\ first.size[R] = second.size[R]
                /\ first.count[R] = second.count[R]
                /\ first.success[R] = second.success[R]
                /\ rcloneSizeBytes[R] = first.size[R]
                /\ rcloneObjectsCount[R] = first.count[R]
                /\ probeSuccess[R] = first.success[R]

C17_Witness ==
    \E h1, h2 \in Handlers :
        /\ probeRequestsTotal = 2
        /\ goroutines = SetToBag({h1}) (+) SetToBag({h2})
        /\ h1 # h2
        /\ Handled(h1) /\ Handled(h2)
        /\ h1.remote = h2.remote
        /\ h1.run = h2.run /\ GoodRun(h1.run)
        /\ h2.response.snapshot.requests = 2
        /\ rcloneSizeBytes[h1.remote] = 2

\* the only goroutines alive wait for external commands that the environment
\* never ends
OnlyEndlessRuns == \A h \in Handlers : h.pc = "exec" /\ returns = 0

\* C18: no request ever waits for a permit (the select is always able to
\* take a branch), a handler that has returned has written a response, and
\* every request whose external command ends is eventually answered and its
\* goroutine ends: again and again the only goroutines left are those whose
\* command the environment never ends.
C18_EveryRequestReturns ==
    /\ [](\A h \in Handlers :
            /\ h.pc = "acquire" => ENABLED TryAcquire(h)
            /\ h.pc = "return" => h.response.status \in {StatusOK} \cup ErrorStatuses)
    /\ []<>OnlyEndlessRuns

C18_Witness ==
    /\ arrivals = 0 /\ returns = 0
    /\ CountOf(InExec) = BagCardinality(goroutines)
    /\ errorResponses >= 2
    /\ semaphore = MaxConcurrentProbes - 1

\* the errors of the parsing stage of GetRemoteSize, and nil
ParserOutcomes == {NoError, ErrEmptyOutput, ErrInvalidJSON, ErrNegative}

\* C19: for a non-empty remote, a failed run gets exactly one error: the
\* timeout error if the deadline has expired (whatever the exit code, and
\* also if the process never started), else the exit error with the exit
\* code and the combined output if the process exited non-zero, else the
\* launch error; the output is parsed exactly when the run exited zero.
C19_RunErrorPrecedence ==
    \A h \in Handlers :
        (h.pc = "returned" /\ h.remote # <<>>) =>
            LET run == h.run
                failed == ~run.started \/ run.exitCode # 0
            IN  /\ (failed /\ run.deadlineExceeded) => h.result = Failure(ErrTimedOut)
                /\ (failed /\ ~run.deadlineExceeded /\ run.started) =>
                     /\ h.result.err = ErrExitCode
                     /\ h.result.exitCode = run.exitCode
                     /\ h.result.output = run.output
                /\ (failed /\ ~run.deadlineExceeded /\ ~run.started) =>
                     h.result = Failure(ErrNotRun)
                /\ h.result.err \in ParserOutcomes <=> ~failed
                /\ failed => (h.result.Count = 0 /\ h.result.Bytes = 0)

C19_Witness ==
    \E h \in Handlers :
        /\ h.pc = "returned" /\ h.remote # <<>>
        /\ h.run.started /\ h.run.deadlineExceeded /\ h.run.exitCode = 1
        /\ h.result.err = ErrTimedOut

\* C20: for a run that exited zero, empty output gets the empty-output error
\* and every output that is not a JSON object with both a count and a bytes
\* field gets the malformed-output error and no result.
C20_MalformedOutputRejected ==
    \A h \in Handlers :
        (h.pc = "returned" /\ h.remote # <<>> /\ h.run.started /\ h.run.exitCode = 0) =>
            LET output == h.run.output
            IN  /\ output.kind = "empty" => h.result = Failure(ErrEmptyOutput)
                /\ ( /\ output.kind # "empty"
                     /\ ~(output.kind = "object" /\ output.hasCount /\ output.hasBytes) ) =>
                       h.result = Failure(ErrInvalidJSON)

\* C21: a result GetRemoteSize returns with a nil error has a count and a
\* size that are not negative, and so has every entry of the size and the
\* object-count gauge.
C21_NonNegativeResults ==
    /\ \A h \in Handlers :
        (Ran(h) /\ h.err = NoError) =>
            /\ h.Count >= 0 /\ h.Bytes >= 0
            /\ h.Count = h.run.output.count /\ h.Bytes = h.run.output.bytes
    /\ \A h \in Handlers :
        (Ran(h) /\ (h.run.output.count < 0 \/ h.run.output.bytes < 0)) => h.err # NoError
    /\ \A l \in DOMAIN rcloneSizeBytes : rcloneSizeBytes[l] >= 0
    /\ \A l \in DOMAIN rcloneObjectsCount : rcloneObjectsCount[l] >= 0

C21_Witness ==
    \E h \in Handlers :
        /\ Handled(h) /\ h.run.exitCode = 0 /\ h.run.output.bytes < 0
        /\ h.err = ErrNegative
        /\ h.remote \in DOMAIN rcloneSizeBytes
        /\ rcloneSizeBytes[h.remote] = 2

\* C22: every label of a size, object-count, success or duration entry is a
\* name that passed validation, and a request answered 400 writes no entry.
C22_OnlyValidatedLabels ==
    /\ \A l \in GaugeLabels : ~InvalidName(l)
    /\ \A h \in Handlers :
        h.status = StatusBadRequest =>
            /\ ~Happened(h, "success") /\ ~Happened(h, "size")
            /\ ~Happened(h, "count") /\ ~Happened(h, "duration")

\* runServer has returned an error
Fatal == server.pc \in {"deferred", "returned"} /\ server.err # NoError
\* the check of the binary has failed
CheckFailed == server.checked /\ ~(server.found /\ server.runs)

\* what C23 says of probe failures and of a failed check: a server that
\* listens goes on listening whatever the outcome of a probe, and accepts
\* the next request; after a failed check runServer has returned an error,
\* with no exporter created and no request served; requests are served only
\* by a server that listens, after a check that passed.
ProbeFailuresNotFatal ==
    /\ [](CheckFailed =>
            /\ Fatal /\ server.err = ErrBinary /\ ~server.exporter
            /\ probeRequestsTotal = 0 /\ Quiescent)
    /\ [](Fatal => (probeRequestsTotal = 0 /\ Quiescent))
    /\ []((probeRequestsTotal > 0 \/ ~Quiescent) =>
            (server.pc = "listening" /\ server.exporter /\ ~CheckFailed))
    /\ []((server.pc = "listening" /\ arrivals > 0 /\ CanRun) =>
            \A q \in ServerQueries : ENABLED Receive(q))
    /\ [][server.pc = "listening" => server'.pc = "listening"]_vars

C24_MetricsLeavesStateAlone ==
    [][server'.scrapes # server.scrapes =>
        /\ server'.metrics = Gather
        /\ semaphore' = semaphore
        /\ goroutines' = goroutines
        /\ returns' = returns /\ arrivals' = arrivals
        /\ counters' = counters
        /\ gauges' = gauges
        /\ lasts' = lasts]_vars

C24_Witness ==
    /\ server.scrapes < MaxScrapes
    /\ server.metrics = Gather
    /\ server.metrics.requests = 2
    /\ server.metrics.errors = 1
    /\ <<"a">> \in DOMAIN server.metrics.success
    /\ semaphore = 1
    /\ \E h \in Handlers : h.pc = "exec"

\* the client NewRcloneClientWithConfig builds from the flags of runServer
Configured == server.pc # "start"

\* C28: the client runServer builds has a timeout that is positive, the
\* default of 2 minutes when the flag is zero or negative and the flag's value
\* otherwise; its binary path is "rclone" for an empty flag and the flag's
\* value otherwise (resolved by the check of the binary); and every run of
\* the size command has the client's timeout as its deadline.
C28_PositiveDeadline ==
    /\ Configured =>
        /\ client.timeout > 0
        /\ client.timeout = IF server.rcloneTimeout <= 0 THEN DefaultTimeout
                            ELSE server.rcloneTimeout
        /\ LET path == IF server.rclonePath = "" THEN DefaultBinaryPath
                       ELSE server.rclonePath
           IN  client.binaryPath = IF server.checked /\ server.found
                                   THEN LookPath(path) ELSE path
        /\ client.cacheExpiry = DefaultCacheExpiry
    /\ \A h \in Handlers :
        Happened(h, "exec") => (h.deadline > 0 /\ h.deadline = client.timeout)
    /\ NewRcloneClient.timeout > 0

C28_Witness ==
    /\ server.rcloneTimeout < 0 /\ server.rclonePath = ""
    /\ client.timeout = DefaultTimeout
    /\ \E h \in Handlers : Handled(h) /\ Ran(h) /\ h.deadline = DefaultTimeout

\* C25: the snapshot of every 200 response to a probe of remote R shows the
\* success entry of R at 1.
C25_SuccessInSnapshot ==
    \A h \in Handlers :
        h.response.status = StatusOK =>
            /\ h.remote \in DOMAIN h.response.snapshot.success
            /\ h.response.snapshot.success[h.remote] = 1

\* what C26 says of the registry and the permits: a request answered 429 has
\* been counted once as a request and once as an error, and each of its steps
\* leaves the permits held and every size, object-count and duration entry
\* as they are, and writes only 0 to the success entry of its remote
RejectedEffects ==
    /\ [](\A h \in Handlers :
            (Handled(h) /\ Rejected(h)) =>
                /\ Occurrences(h.events, "requests") = 1
                /\ Occurrences(h.events, "errors") = 1
                /\ Occurrences(h.events, "success") = 1
                /\ \A e \in {"acquire", "release", "exec", "size", "count", "duration",
                             "lastDuration", "serve"} : ~Happened(h, e))
    /\ [][\A h \in Handlers : \A g \in BagToSet(goroutines') :
            (Took(h, g) /\ Rejected(g)) =>
                /\ semaphore' = semaphore
                /\ rcloneSizeBytes' = rcloneSizeBytes
                /\ rcloneObjectsCount' = rcloneObjectsCount
                /\ probeDurationSeconds' = probeDurationSeconds
                /\ probeRequestsTotal' = probeRequestsTotal
                /\ scrapeErrorsTotal' = scrapeErrorsTotal + EventsAdded(h, g, "errors")
                /\ probeSuccess' = IF EventsAdded(h, g, "success") > 0
                                   THEN GaugeSet(probeSuccess, g.remote, 0)
                                   ELSE probeSuccess]_vars

\* C26 as stated: these are all the effects of a request answered 429 on the
\* state the requests share: its steps change nothing else of the exporter.
C26_RejectedEffectsOnly ==
    /\ RejectedEffects
    /\ [][\A h \in Handlers : \A g \in BagToSet(goroutines') :
            (Took(h, g) /\ Rejected(g)) => lasts' = lasts]_vars

\* C26 as amended: besides these effects, a request answered 429 sets the
\* last observed success value of the exporter to 0, and leaves the last
\* observed size, object count and duration as they are.
C26_RejectedEffectsAndLast ==
    /\ RejectedEffects
    /\ [](\A h \in Handlers :
            (Handled(h) /\ Rejected(h)) => Occurrences(h.events, "lastSuccess") = 1)
    /\ [][\A h \in Handlers : \A g \in BagToSet(goroutines') :
            (Took(h, g) /\ Rejected(g)) =>
                /\ lastRcloneSizeBytes' = lastRcloneSizeBytes
                /\ lastRcloneObjectsCount' = lastRcloneObjectsCount
                /\ lastProbeDurationSeconds' = lastProbeDurationSeconds
                /\ lastProbeSuccess' = IF EventsAdded(h, g, "lastSuccess") > 0 THEN 0
                                       ELSE lastProbeSuccess]_vars

C26_Witness ==
    \E h \in Handlers :
        /\ Handled(h) /\ Rejected(h)
        /\ h.events = <<"requests", "errors", "success", "lastSuccess", "respond">>
        /\ probeSuccess[h.remote] = 0 /\ lastProbeSuccess = 0
        /\ semaphore = MaxConcurrentProbes - 1
        /\ h.remote \in DOMAIN rcloneSizeBytes
        /\ h.remote \in DOMAIN probeDurationSeconds

\* C27: an attempt to acquire a permit is answered 429 only when
\* MaxConcurrentProbes permits are held; with fewer held it takes a permit,
\* and the request goes on to call GetRemoteSize, which it can always do.
C27_RejectedOnlyWhenFull ==
    /\ [][\A h \in Handlers : \A g \in BagToSet(goroutines') :
            (Took(h, g) /\ h.pc = "acquire") =>
                /\ Rejected(g) => semaphore = MaxConcurrentProbes
                /\ semaphore < MaxConcurrentProbes =>
                     /\ ~Rejected(g) /\ g.pc = "call" /\ HoldsPermit(g)
                     /\ semaphore' = semaphore + 1]_vars
    /\ [](\A h \in Handlers :
            /\ h.pc = "call" => (HoldsPermit(h) /\ ENABLED CallGetRemoteSize(h))
            /\ Rejected(h) => ~Happened(h, "acquire"))

C27_Witness ==
    /\ semaphore = MaxConcurrentProbes
    /\ \E h \in Handlers : h.pc = "exec" /\ HoldsPermit(h)
    /\ \E h \in Handlers : h.pc = "call" /\ HoldsPermit(h)
    /\ \E h \in Handlers : Rejected(h) /\ h.pc = "handleError"
    /\ scrapeErrorsTotal > 0

\* the calls of GetRemoteType
Calls == Handlers
\* the call that enters in this step
Enters(g) == goroutines' = goroutines (+) SetToBag({g})
\* the cache holds an entry for key that is younger than five minutes
FreshEntry(key) ==
    /\ key \in DOMAIN client.remoteTypeCache
    /\ key \in DOMAIN client.cacheTimestamps
    /\ now - client.cacheTimestamps[key] < DefaultCacheExpiry

\* C29: a call of GetRemoteType looks the name up without one trailing colon;
\* it returns the cached type, with no error and without running the config
\* dump, exactly when the cache holds an entry for that name that is younger
\* than five minutes; otherwise it runs the config dump; the call itself
\* leaves the cache as it is.
C29_CacheHitIffFresh ==
    /\ [][\A g \in BagToSet(goroutines') :
            Enters(g) =>
                /\ (g.pc = "cached") <=> FreshEntry(g.remoteName)
                /\ FreshEntry(g.remoteName) =>
                     (g.type = client.remoteTypeCache[g.remoteName] /\ g.err = NoError)
                /\ ~FreshEntry(g.remoteName) => g.pc = "dump"
                /\ client' = client]_vars
    /\ [](\A h \in Calls :
            /\ \/ h.name = h.remoteName /\ (h.name = <<>> \/ h.name[Len(h.name)] # ":")
               \/ h.name = h.remoteName \o <<":">>
            /\ h.pc = "dump" => \A dump \in Dumps : ENABLED RunConfigDump(h, dump)
            /\ h.pc = "cached" =>
                 /\ \A dump \in Dumps : ~ENABLED RunConfigDump(h, dump)
                 /\ ~ENABLED ReturnGetRemoteType(h))

C29_Witness ==
    /\ \E h \in Calls :
        /\ h.pc = "looked up" /\ h.name = <<"a">> /\ h.type = "s3" /\ h.at = 1
    /\ \E h \in Calls :
        /\ h.pc = "cached" /\ h.name = <<"a", ":">> /\ h.type = "s3"
        /\ h.at = DefaultCacheExpiry
    /\ client.remoteTypeCache = (<<"a">> :> "s3")
    /\ client.cacheTimestamps = (<<"a">> :> 1)

\* the lookup of key in this dump fails: the command failed, the config is
\* empty or does not decode, the remote is absent, or its type is missing or
\* is no string
LookupFails(key, dump) ==
    \/ dump.kind # "config"
    \/ key \notin DOMAIN dump.remotes
    \/ ~dump.remotes[key].hasType
    \/ ~dump.remotes[key].isString

\* what C30 says of the writes: a lookup that fails returns "unknown" with an
\* error and leaves the cache as it is; one that succeeds returns the type
\* of the config and stores it together with the time; no other step of a
\* call writes the cache; the two maps have the same keys.
CacheWrittenOnSuccess ==
    /\ [][\A h \in Calls : \A g \in BagToSet(goroutines') :
            (Took(h, g) /\ h.pc = "parse" /\ g.pc # "parse") =>
                IF LookupFails(h.remoteName, g.dump)
                THEN /\ g.type = TypeUnknown /\ g.err # NoError
                     /\ client' = client
                ELSE /\ g.err = NoError
                     /\ g.type = g.dump.remotes[h.remoteName].type
                     /\ DOMAIN client'.remoteTypeCache
                            = DOMAIN client.remoteTypeCache \cup {h.remoteName}
                     /\ \A k \in DOMAIN client'.remoteTypeCache :
                            /\ client'.remoteTypeCache[k] =
                                 IF k = h.remoteName THEN g.type
                                 ELSE client.remoteTypeCache[k]
                            /\ client'.cacheTimestamps[k] =
                                 IF k = h.remoteName THEN now
                                 ELSE client.cacheTimestamps[k]]_vars
    /\ [][(now' # now \/ \E g \in BagToSet(goroutines') : Enters(g)) =>
            client' = client]_vars
    /\ [](DOMAIN client.remoteTypeCache = DOMAIN client.cacheTimestamps)

\* C30 as stated: the cache is written only by a successful lookup, and so
\* "unknown" is never a value of the cache.
C30_UnknownNeverStored ==
    /\ CacheWrittenOnSuccess
    /\ [](\A k \in DOMAIN client.remoteTypeCache :
            client.remoteTypeCache[k] # TypeUnknown)

\* C30 as amended: the cache is written only by a successful lookup, and so
\* every value of the cache is the type string a config dump gave the remote,
\* whatever that string is.
C30_OnlyConfigTypesStored ==
    /\ CacheWrittenOnSuccess
    /\ [](\A k \in DOMAIN client.remoteTypeCache :
            \E dump \in Dumps :
                /\ ~LookupFails(k, dump)
                /\ dump.remotes[k].type = client.remoteTypeCache[k])

C30_Witness ==
    /\ \E h \in Calls :
        /\ h.pc = "looked up" /\ h.remoteName = <<"a">> /\ h.err = NoError /\ h.at = 0
    /\ \E h \in Calls :
        /\ h.pc = "looked up" /\ h.remoteName = <<"a">>
        /\ h.err = ErrTypeNotString /\ h.type = TypeUnknown
        /\ h.at = DefaultCacheExpiry
    /\ client.remoteTypeCache = (<<"a">> :> "s3")
    /\ client.cacheTimestamps = (<<"a">> :> 0)

\* C31: the map of cached types and the map of their timestamps have the
\* same keys in every state, whatever the interleaving of GetRemoteType,
\* InvalidateCache and ClearCache.
C31_SameKeys == DOMAIN client.remoteTypeCache = DOMAIN client.cacheTimestamps

C31_Witness ==
    /\ \E h \in Handlers : h.pc = "looked up" /\ h.remoteName = <<"a">> /\ h.err = NoError
    /\ \E h \in Handlers : h.pc = "looked up" /\ h.remoteName = <<"b">> /\ h.err = NoError
    /\ DOMAIN client.remoteTypeCache = {<<"b">>}
    /\ DOMAIN client.cacheTimestamps = {<<"b">>}

\* the name without one trailing colon
WithoutColon(name) ==
    IF name # <<>> /\ name[Len(name)] = ":" THEN SubSeq(name, 1, Len(name) - 1) ELSE name

\* map after is map before without the keys in gone
Without(before, after, gone) ==
    /\ DOMAIN after = (DOMAIN before) \ gone
    /\ \A k \in DOMAIN after : after[k] = before[k]

\* C32: InvalidateCache(name) removes the entry of the name without its
\* trailing colon from both maps and leaves every other entry as it is;
\* ClearCache leaves both maps empty; an entry is added only by the return of
\* a lookup that was in flight; and a call of GetRemoteType for a name that
\* has no entry runs the config dump.
C32_InvalidateRemovesEntry ==
    /\ [][\A name \in RemoteNames :
            InvalidateCache(name) =>
                /\ Without(client.remoteTypeCache, client'.remoteTypeCache,
                           {WithoutColon(name)})
                /\ Without(client.cacheTimestamps, client'.cacheTimestamps,
                           {WithoutColon(name)})]_vars
    /\ [][ClearCache =>
            /\ client'.remoteTypeCache = EmptyMap
            /\ client'.cacheTimestamps = EmptyMap]_vars
    /\ [][(DOMAIN client'.remoteTypeCache \ DOMAIN client.remoteTypeCache # {}) =>
            \E h \in Handlers : \E g \in BagToSet(goroutines') :
                Took(h, g) /\ h.pc = "parse" /\ g.pc = "looked up"]_vars
    /\ [][\A g \in BagToSet(goroutines') :
            (Enters(g) /\ WithoutColon(g.name) \notin DOMAIN client.remoteTypeCache) =>
                g.pc = "dump"]_vars

C32_Witness ==
    /\ now = 2
    /\ \E h \in Handlers :
        h.pc = "looked up" /\ h.name = <<"a">> /\ h.err = NoError /\ h.at = 1
    /\ \E h \in Handlers : h.pc = "dump" /\ h.name = <<"a", ":">> /\ h.at = 2
    /\ client.remoteTypeCache = EmptyMap

\* C33: once InvalidateCache(name) or ClearCache has returned, no call of
\* GetRemoteType for the name returns from the cache a type that was read
\* from the config before the entry was removed, even when a lookup of the
\* name held the output of its config dump while the entry was removed.
C33_NoTypeFromBeforeInvalidation ==
    \A h \in Calls : h.pc = "cached" => ~h.stale

\* a lookup read "s3" for the name, the entry was removed, the lookup stored
\* what it had read, and a later call was served "s3" from the cache
C33_StaleTypeServed ==
    /\ \E h \in Calls :
        /\ h.pc = "looked up" /\ h.remoteName = <<"a">> /\ h.stale
        /\ h.err = NoError /\ h.type = "s3"
    /\ \E h \in Calls :
        /\ h.pc = "cached" /\ h.remoteName = <<"a">> /\ h.stale /\ h.type = "s3"
    /\ client.remoteTypeCache = (<<"a">> :> "s3")

\* C34: GetRemoteSizeWithType returns an error exactly when its call of
\* GetRemoteSize does, and then it returns that error and no result without
\* calling GetRemoteType or touching the cache; when GetRemoteSize succeeds
\* it calls GetRemoteType once and returns the size result with no error,
\* with the type GetRemoteType gave, or "unknown" when GetRemoteType failed.
C34_FailsIffSizeFails ==
    /\ [](\A h \in Calls : h.pc = "returned" =>
            /\ (h.out.err # NoError) <=> (h.sizeOutput.err # NoError)
            /\ h.sizeOutput.err # NoError =>
                 /\ h.out.err = h.sizeOutput.err /\ h.out.result.isNil
                 /\ h.typeCalls = 0
            /\ h.sizeOutput.err = NoError =>
                 /\ h.typeCalls = 1
                 /\ ~h.out.result.isNil
                 /\ h.out.result.RcloneSizeOutput = h.sizeOutput
                 /\ h.out.result.RemoteType =
                      IF h.err # NoError THEN TypeUnknown ELSE h.type)
    /\ [][\A h \in Calls : \A g \in BagToSet(goroutines') :
            (Took(h, g) /\ h.pc = "size" /\ g.pc # "size") =>
                IF g.sizeOutput.err # NoError
                THEN g.pc = "returned" /\ client' = client
                ELSE g.pc \in {"cached", "dump"}]_vars

C34_Witness ==
    /\ \E h \in Calls :
        /\ h.pc = "returned" /\ h.name = <<"a">> /\ h.sizeOutput.err = ErrTimedOut
        /\ h.out.err = ErrTimedOut /\ h.typeCalls = 0
    /\ \E h \in Calls :
        /\ h.pc = "returned" /\ h.name = <<"a", ":">> /\ h.sizeOutput.err = NoError
        /\ h.err = ErrNoTypeField /\ h.out.err = NoError
        /\ h.out.result.RemoteType = TypeUnknown
        /\ h.out.result.RcloneSizeOutput.Bytes = 2
    /\ client.remoteTypeCache = EmptyMap

\* C35: Close unregisters the six collectors of the exporter, so that the
\* registry exposes no family and no series of them afterwards, whatever the
\* requests still write; a second Close leaves the registry as the first
\* left it.
C35_CloseUnregistersAll ==
    /\ [][server'.closes = server.closes + 1 =>
            /\ registry' = registry \ Collectors
            /\ server.closes > 0 => (registry' = registry /\ Gather' = Gather)]_vars
    /\ [](server.closes > 0 =>
            /\ registry \cap Collectors = {}
            /\ Gather = [NoSnapshot EXCEPT !.families = registry])
    /\ [](Unregistered(Unregistered(registry)) = Unregistered(registry))

C35_Witness ==
    /\ server.closes = 2
    /\ registry = {}
    /\ <<"a">> \in DOMAIN rcloneSizeBytes
    /\ scrapeErrorsTotal > 0
    /\ probeRequestsTotal > 0
    /\ Gather = NoSnapshot

\* C36: a signal makes the goroutine call Shutdown with the configured
\* timeout, after which the server accepts no request; runServer returns nil
\* only when that goroutine has ended, and after a signal it does return
\* nil; when ListenAndServe fails with another error runServer returns that
\* error with no signal received; Close runs only as runServer returns,
\* when ListenAndServe has returned, and no request is accepted after it.
C36_ShutdownThenClose ==
    /\ [][(server.signal = "" /\ server'.signal # "") =>
            /\ server'.signal \in Signals
            /\ server'.shutdown = "shutting"
            /\ server'.deadline = server.shutdownTimeout]_vars
    /\ [](server.signal # "" => ~Accepting)
    /\ []((server.pc \in {"deferred", "returned"} /\ server.err = NoError) =>
            (server.shutdown = "done" /\ server.signal # ""))
    /\ [](server.err = ErrCrashed =>
            /\ server.signal = "" /\ server.shutdown = "waiting"
            /\ server.pc \in {"deferred", "returned"}
            /\ server.pc = "deferred" => ENABLED RunServerReturn)
    /\ [][registry' \cap Collectors # registry \cap Collectors =>
            /\ server.pc = "deferred" /\ server'.pc = "returned"
            /\ registry' = registry \ Collectors]_vars
    /\ [](server.closes > 0 => (server.pc = "returned" /\ ~Accepting))
    /\ (server.signal # "") ~>
            (server.pc = "returned" /\ server.err = NoError /\ server.closes = 1)

C36_Witness ==
    /\ server.pc = "returned" /\ server.err = NoError
    /\ server.signal = "SIGTERM" /\ server.shutdown = "done"
    /\ server.shutdownErr = ErrDeadlineExceeded
    /\ server.shutdownTimeout = 0 /\ server.deadline = 0
    /\ server.closes = 1
    /\ registry = {BuildInfoCollector}
    /\ probeRequestsTotal > 0

\* the (bytes, count) pairs that successful runs of rclone report
ResultPairs == {<<run.output.bytes, run.output.count>> : run \in {r \in Runs : GoodRun(r)}}

\* C37: the pair of last size and last object count is (0, 0) or the
\* (bytes, count) result of one successful probe; one step of one successful
\* request writes both fields, with the result of its own run, and no other
\* step writes either, so concurrent probes leave no mixed pair.
C37_LastPairOfOneProbe ==
    /\ [](\/ <<lastRcloneSizeBytes, lastRcloneObjectsCount>> = <<0, 0>>
          \/ <<lastRcloneSizeBytes, lastRcloneObjectsCount>> \in ResultPairs)
    /\ [][<<lastRcloneSizeBytes, lastRcloneObjectsCount>>'
             # <<lastRcloneSizeBytes, lastRcloneObjectsCount>> =>
            \E h \in Handlers : \E g \in BagToSet(goroutines') :
                /\ Took(h, g) /\ h.pc = "setLast" /\ g.pc = "serve"
                /\ GoodRun(h.run)
                /\ lastRcloneSizeBytes' = h.run.output.bytes
                /\ lastRcloneObjectsCount' = h.run.output.count]_vars
    /\ [][\A h \in Handlers : \A g \in BagToSet(goroutines') :
            (Took(h, g) /\ h.pc = "setLast" /\ g.pc = "serve") =>
                /\ lastRcloneSizeBytes' = h.run.output.bytes
                /\ lastRcloneObjectsCount' = h.run.output.count]_vars

C37_Witness ==
    /\ lastRcloneSizeBytes = 1 /\ lastRcloneObjectsCount = 2
    /\ \E h \in Handlers :
        /\ h.pc = "serve" /\ h.run.output.bytes = 2 /\ h.run.output.count = 1
    /\ \E h \in Handlers :
        /\ h.pc = "serve" /\ h.run.output.bytes = 1 /\ h.run.output.count = 2

\* no request is in flight: every request that arrived has been answered
\* and has run its deferred calls
NoneInFlight == \A h \in Handlers : Handled(h)

\* C38: whenever no request is in flight, the last success value kept for
\* OpenTelemetry equals the entry of the success gauge that was written
\* last.  When the gauge has a single entry, that entry is the one written
\* last, whatever the order of the writes.
C38_LastSuccessIsLastGaugeWrite ==
    NoneInFlight =>
        \A remote \in DOMAIN probeSuccess :
            DOMAIN probeSuccess = {remote} => lastProbeSuccess = probeSuccess[remote]

\* two requests for one remote have been answered, one 200 and one 500; the
\* failed one wrote the gauge last and the successful one the last value
C38_GaugeAndLastDiffer ==
    /\ NoneInFlight
    /\ \E h \in Handlers : h.response.status = StatusOK /\ h.remote = <<"a">>
    /\ \E h \in Handlers :
        h.response.status = StatusInternalServerError /\ h.remote = <<"a">>
    /\ probeSuccess = (<<"a">> :> 0)
    /\ lastProbeSuccess = 1

====
